---- MODULE Spec2Model ----
(***************************************************************************)
(* LeadHive backend: the leads table, the assignment ledger                *)
(* (lead_assignments), team membership and the role checks of the lead,    *)
(* bulk-lead, team and user endpoints.                                     *)
(*                                                                         *)
(* A handler is an operator from the store it runs against and the request *)
(* to its response and the store it leaves: the route's roleMiddleware     *)
(* followed by the controller.  The action of the same endpoint applies    *)
(* the handler to the current store.  createLead performs two separate     *)
(* store writes outside a transaction and is therefore two steps.  Ids are *)
(* positive integers; 0 stands for null / undefined / not supplied.        *)
(***************************************************************************)
EXTENDS Integers, Sequences, FiniteSets, TLC

\* ------------------------------------------------------------------ bounds
MaxLeads == 2        \* lead ids ever handed out by the auto-increment key
MaxAssignments == 3  \* ledger row ids ever handed out
MaxIds == 2          \* longest lead_ids list of a bulk request
MaxInflight == 1     \* createLead requests between their two store writes
MaxAssigning == 2    \* requests of one endpoint in flight at once
CHUNK == 1           \* rows per bulkCreate (1000 in the source), scaled to MaxIds
MaxClock == 1        \* last value of the clock that stamps assigned_at

\* --------------------------------------------------------------- seed data
Null == 0

\* users table joined with roles (User.belongsTo(Role))
Users == {1, 2, 3}
RoleOf == (1 :> "admin") @@ (2 :> "manager") @@ (3 :> "sales_rep")
MissingUser == Cardinality(Users) + 1  \* an id with no users row

\* users.full_name, a letter being its place in the alphabet: "cy", "zed", "amy"
FullName == (1 :> <<3, 25>>) @@ (2 :> <<26, 5, 4>>) @@ (3 :> <<1, 13, 25>>)

Teams == {1, 2}

\* lead_statuses and lead_sources reference rows (id -> value)
StatusValue == (1 :> "new") @@ (2 :> "contacted")
SourceValue == (1 :> "facebook")
Statuses == DOMAIN StatusValue
Sources == DOMAIN SourceValue

\* user ids offered to the team-member, team-manager and toggle-active requests
MemberTeams == {1}
MemberInputs == {3}
ManagerInputs == {2, 3}
ToggleInputs == {3}

LeadIds == 1..MaxLeads

\* request bodies of POST /leads and PUT /leads/:id; a field that is not
\* supplied is <<>> (text) or Null (id)
CreateBodies ==
  { [first_name |-> <<"b">>, status_id |-> 2,    source_id |-> Null],
    [first_name |-> <<"b">>, status_id |-> Null, source_id |-> Null] }
UpdateBodies ==
  { [first_name |-> <<>>, status_id |-> 1, source_id |-> Null] }

\* the createLead requests that can be between their two store writes
Pending == [lead : LeadIds, actor : Users]

\* lead_ids lists of the bulk endpoints: non-empty, possibly repeating an id
IdLists == UNION { [1..n -> LeadIds] : n \in 1..MaxIds }

VARIABLES
  leads,        \* leads table: set of lead rows
  ledger,       \* lead_assignments table: set of rows
  nextLeadId,   \* auto-increment of leads.id
  nextAssignId, \* auto-increment of lead_assignments.id
  teamManagers, \* team_managers rows <<team_id, manager_id>>
  teamMembers,  \* team_members rows <<team_id, user_id>>
  isActive,     \* users.is_active
  inflight,     \* createLead requests between Lead.create and LeadAssignment.create
  leadStatuses, \* lead_statuses table: ids of its rows
  leadSources,  \* lead_sources table: ids of its rows
  assigning,    \* assignLead requests between their awaits
  bulkAssigning, \* bulkAssign requests between their awaits
  now           \* the clock DataTypes.NOW reads, in the unit assigned_at is stored in

vars == <<leads, ledger, nextLeadId, nextAssignId, teamManagers, teamMembers,
          isActive, inflight, leadStatuses, leadSources, assigning,
          bulkAssigning, now>>

\* ------------------------------------------------------------------ helpers
NoReport ==
  [requested |-> 0, updated |-> 0, deleted |-> 0, skipped |-> {}, missing |-> <<>>]

\* the current store as one value
Store ==
  [leads |-> leads, ledger |-> ledger, nextLeadId |-> nextLeadId,
   nextAssignId |-> nextAssignId, teamManagers |-> teamManagers,
   teamMembers |-> teamMembers, isActive |-> isActive, inflight |-> inflight,
   leadStatuses |-> leadStatuses, leadSources |-> leadSources,
   assigning |-> assigning, bulkAssigning |-> bulkAssigning, now |-> now]

\* resError / resSuccess: the response and the store the handler leaves behind
Reply(st, status) == [status |-> status, report |-> NoReport, store |-> st]
Done(status, report, store) == [status |-> status, report |-> report, store |-> store]

\* a step of an endpoint: the store becomes the one the handler leaves
Apply(res) ==
  /\ res.store.nextLeadId <= MaxLeads + 1
  /\ res.store.nextAssignId <= MaxAssignments + 1
  /\ leads' = res.store.leads
  /\ ledger' = res.store.ledger
  /\ nextLeadId' = res.store.nextLeadId
  /\ nextAssignId' = res.store.nextAssignId
  /\ teamManagers' = res.store.teamManagers
  /\ teamMembers' = res.store.teamMembers
  /\ isActive' = res.store.isActive
  /\ inflight' = res.store.inflight
  /\ leadStatuses' = res.store.leadStatuses
  /\ leadSources' = res.store.leadSources
  /\ assigning' = res.store.assigning
  /\ bulkAssigning' = res.store.bulkAssigning
  /\ now' = res.store.now

\* middlewares/roleMiddleware.js: the request passes iff the role is allowed
roleMiddleware(allowedRoles, actor) == RoleOf[actor] \in allowedRoles

Range(s) == { s[i] : i \in DOMAIN s }

\* the elements of a set of integers in ascending order (ORDER BY id ASC)
Ascending(S) ==
  CHOOSE s \in [1..Cardinality(S) -> S] :
    \A i, j \in 1..Cardinality(S) : i < j => s[i] < s[j]

\* Lead.findByPk
LeadExists(st, id) == \E l \in st.leads : l.id = id
LeadById(st, id) == CHOOSE l \in st.leads : l.id = id

\* LeadAssignment rows where lead_id = id
RowsOf(st, id) == { r \in st.ledger : r.lead_id = id }

\* (SELECT MAX(id) FROM lead_assignments GROUP BY lead_id)
LATEST_ASSIGNMENT_IDS(st) ==
  { r.id : r \in { q \in st.ledger : \A p \in RowsOf(st, q.lead_id) : p.id <= q.id } }

\* updateLead's lookup with ORDER BY id ASC instead of DESC: the oldest row
LatestAssigneeOfAsc(st, id) ==
  IF RowsOf(st, id) = {} THEN Null
  ELSE (CHOOSE r \in RowsOf(st, id) : \A p \in RowsOf(st, id) : r.id <= p.id).assignee_id

\* updateLead: LeadAssignment.findOne({where:{lead_id}, order:[["id","DESC"]]})
\* followed by latest?.assignee_id ?? null
LatestAssigneeOf(st, id) ==
  IF RowsOf(st, id) = {} THEN Null
  ELSE (CHOOSE r \in RowsOf(st, id) : \A p \in RowsOf(st, id) : p.id <= r.id).assignee_id

\* LeadAssignment.create: the new row takes the next auto-increment id and
\* assigned_at defaults to the time of the insert
NewRow(rowId, leadId, assignee, by, at) ==
  [id |-> rowId, lead_id |-> leadId, assignee_id |-> assignee, assigned_by |-> by,
   assigned_at |-> at]

Managers == { u \in Users : RoleOf[u] = "manager" }

Init ==
  /\ leads = {}
  /\ ledger = {}
  /\ nextLeadId = 1
  /\ nextAssignId = 1
  /\ teamManagers = {<<1, 2>>}
  /\ teamMembers = {}
  /\ isActive = [u \in Users |-> TRUE]
  /\ inflight = {}
  /\ leadStatuses = Statuses
  /\ leadSources = Sources
  /\ assigning = {}
  /\ bulkAssigning = {}
  /\ now = 0

\* ------------------------------------------------------------- lead CRUD
\* leads.status_id references lead_statuses.id and is not null;
\* leads.source_id references lead_sources.id and may be null
ForeignKeysHold(st, status_id, source_id) ==
  /\ status_id \in st.leadStatuses
  /\ source_id = Null \/ source_id \in st.leadSources

\* POST /leads up to and including the first store write, Lead.create
createLeadInsert(st, actor, body) ==
  IF ~roleMiddleware({"admin", "manager"}, actor) THEN Reply(st, 403)
  ELSE IF body.status_id = Null THEN Reply(st, 400)
  ELSE IF ~ForeignKeysHold(st, body.status_id, body.source_id) THEN Reply(st, 500)
  ELSE Done(0, NoReport,
            [st EXCEPT
               !.leads = @ \cup
                  { [id |-> st.nextLeadId, first_name |-> body.first_name,
                     status_id |-> body.status_id, source_id |-> body.source_id,
                     created_by |-> actor, updated_by |-> Null] },
               !.nextLeadId = @ + 1,
               !.inflight = @ \cup { [lead |-> st.nextLeadId, actor |-> actor] }])

\* POST /leads, second store write: LeadAssignment.create for the creator.
\* The foreign key lead_assignments.lead_id rejects the insert when the lead
\* has been deleted in between; the catch block then answers 500.
createLeadAssign(st, p) ==
  IF LeadExists(st, p.lead)
    THEN Done(201, NoReport,
              [st EXCEPT
                 !.ledger = @ \cup { NewRow(st.nextAssignId, p.lead, p.actor, p.actor, st.now) },
                 !.nextAssignId = @ + 1,
                 !.inflight = @ \ {p}])
    ELSE Done(500, NoReport, [st EXCEPT !.inflight = @ \ {p}])

\* POST /leads: the store rejects the ledger insert (catch block, 500); the
\* lead written by the first step stays, there is no transaction to roll back
createLeadAssignFail(st, p) ==
  Done(500, NoReport, [st EXCEPT !.inflight = @ \ {p}])

CreateLeadInsert(actor, body) ==
  /\ Cardinality(inflight) < MaxInflight
  /\ Apply(createLeadInsert(Store, actor, body))

CreateLeadAssign(p) ==
  /\ p \in inflight
  /\ Apply(createLeadAssign(Store, p))

CreateLeadAssignFail(p) ==
  /\ p \in inflight
  /\ Apply(createLeadAssignFail(Store, p))

\* POST /leads/upload/import (admin only): n rows without e-mail and phone, so
\* no duplicate is detected; status falls back to 'new', source to 'facebook'
\* (a lead without a status is rejected by the store, one without a source is not).
\* Leads and their initial assignments are written in one transaction.
importLeads(st, actor, n) ==
  IF ~roleMiddleware({"admin"}, actor) THEN Reply(st, 403)
  ELSE IF ~\E s \in st.leadStatuses : StatusValue[s] = "new" THEN Reply(st, 500)
  ELSE LET defaultStatus == CHOOSE s \in st.leadStatuses : StatusValue[s] = "new"
           defaultSource == IF \E s \in st.leadSources : SourceValue[s] = "facebook"
                            THEN CHOOSE s \in st.leadSources : SourceValue[s] = "facebook"
                            ELSE Null
       IN Done(201, NoReport,
               [st EXCEPT
                  !.leads = @ \cup
                     { [id |-> st.nextLeadId + i, first_name |-> <<"a", "n">>,
                        status_id |-> defaultStatus, source_id |-> defaultSource,
                        created_by |-> actor, updated_by |-> actor] : i \in 0..(n - 1) },
                  !.ledger = @ \cup
                     { NewRow(st.nextAssignId + i, st.nextLeadId + i, actor, actor, st.now) :
                         i \in 0..(n - 1) },
                  !.nextLeadId = @ + n,
                  !.nextAssignId = @ + n])

ImportLeads(actor, n) ==
  /\ actor \in Users
  /\ Apply(importLeads(Store, actor, n))

\* PUT /leads/:id
updateLead(st, actor, id, body) ==
  IF ~roleMiddleware({"admin", "manager"}, actor) THEN Reply(st, 403)
  ELSE IF ~LeadExists(st, id) THEN Reply(st, 404)
  ELSE IF RoleOf[actor] = "sales_rep" /\ LatestAssigneeOf(st, id) # actor THEN Reply(st, 403)
  ELSE LET lead == LeadById(st, id)
           saved == [lead EXCEPT
                       !.first_name = IF body.first_name # <<>> THEN body.first_name ELSE @,
                       !.status_id = IF body.status_id # Null THEN body.status_id ELSE @,
                       !.source_id = IF body.source_id # Null THEN body.source_id ELSE @,
                       !.updated_by = actor]
       IN IF ~ForeignKeysHold(st, saved.status_id, saved.source_id) THEN Reply(st, 500)
          ELSE Done(200, NoReport, [st EXCEPT !.leads = (@ \ {lead}) \cup {saved}])

UpdateLead(actor, id, body) ==
  /\ actor \in Users
  /\ Apply(updateLead(Store, actor, id, body))

\* deleteLead without the cascade: the lead goes, its ledger rows stay
deleteLeadKeepRows(st, actor, id) ==
  IF ~roleMiddleware({"admin", "manager"}, actor) THEN Reply(st, 403)
  ELSE IF ~LeadExists(st, id) THEN Reply(st, 404)
  ELSE Done(200, NoReport, [st EXCEPT !.leads = @ \ {LeadById(st, id)}])

\* DELETE /leads/:id: lead.destroy(); Lead.hasMany(LeadAssignment) on the
\* non-null foreign key lead_id removes the lead's ledger rows with it
deleteLead(st, actor, id) ==
  IF ~roleMiddleware({"admin", "manager"}, actor) THEN Reply(st, 403)
  ELSE IF ~LeadExists(st, id) THEN Reply(st, 404)
  ELSE Done(200, NoReport,
            [st EXCEPT !.leads = @ \ {LeadById(st, id)}, !.ledger = @ \ RowsOf(st, id)])

DeleteLead(actor, id) ==
  /\ actor \in Users
  /\ Apply(deleteLead(Store, actor, id))

\* assignLead as an upsert: the lead's current row is rewritten in place
\* instead of a new row being appended
assignLeadInPlace(st, actor, id, assignee_id) ==
  IF ~roleMiddleware({"admin", "manager"}, actor) THEN Reply(st, 403)
  ELSE IF ~LeadExists(st, id) THEN Reply(st, 404)
  ELSE IF assignee_id \notin Users THEN Reply(st, 404)
  ELSE IF RowsOf(st, id) = {}
    THEN Done(201, NoReport,
              [st EXCEPT
                 !.ledger = @ \cup { NewRow(st.nextAssignId, id, assignee_id, actor, st.now) },
                 !.nextAssignId = @ + 1])
  ELSE LET cur == CHOOSE r \in RowsOf(st, id) : \A p \in RowsOf(st, id) : p.id <= r.id
       IN Done(201, NoReport,
               [st EXCEPT
                  !.ledger = (@ \ {cur}) \cup { NewRow(cur.id, id, assignee_id, actor, st.now) }])

\* POST /leads/:id/assign
assignLead(st, actor, id, assignee_id) ==
  IF ~roleMiddleware({"admin", "manager"}, actor) THEN Reply(st, 403)
  ELSE IF ~LeadExists(st, id) THEN Reply(st, 404)
  ELSE IF assignee_id \notin Users THEN Reply(st, 404)
  ELSE Done(201, NoReport,
            [st EXCEPT
               !.ledger = @ \cup { NewRow(st.nextAssignId, id, assignee_id, actor, st.now) },
               !.nextAssignId = @ + 1])

AssignLead(actor, id, assignee_id) ==
  /\ actor \in Users
  /\ Apply(assignLead(Store, actor, id, assignee_id))

\* assignLead await by await.  A request in flight is
\* [req, actor, lead, assignee, pc, since]: pc names the await it is about to
\* run, since is the ledger id counter when the request came in
Requests == 1..MaxAssigning

\* the request arrives: roleMiddleware, then the handler starts
assignLeadBegin(st, req, actor, id, assignee_id) ==
  IF ~roleMiddleware({"admin", "manager"}, actor) THEN Reply(st, 403)
  ELSE Done(0, NoReport,
            [st EXCEPT !.assigning = @ \cup
               { [req |-> req, actor |-> actor, lead |-> id, assignee |-> assignee_id,
                  pc |-> "findLead", since |-> st.nextAssignId] }])

\* await Lead.findByPk(id)
assignLeadFindLead(st, q) ==
  IF ~LeadExists(st, q.lead)
  THEN Done(404, NoReport, [st EXCEPT !.assigning = @ \ {q}])
  ELSE Done(0, NoReport,
            [st EXCEPT !.assigning = (@ \ {q}) \cup {[q EXCEPT !.pc = "findUser"]}])

\* await User.findByPk(assignee_id)
assignLeadFindUser(st, q) ==
  IF q.assignee \notin Users
  THEN Done(404, NoReport, [st EXCEPT !.assigning = @ \ {q}])
  ELSE Done(0, NoReport,
            [st EXCEPT !.assigning = (@ \ {q}) \cup {[q EXCEPT !.pc = "create"]}])

\* the insert as an upsert: the rows the lead has are replaced by the new one
assignLeadCreateUpsert(st, q) ==
  IF ~LeadExists(st, q.lead)
  THEN Done(500, NoReport, [st EXCEPT !.assigning = @ \ {q}])
  ELSE Done(201, NoReport,
            [st EXCEPT !.ledger = (@ \ RowsOf(st, q.lead)) \cup
                          {NewRow(st.nextAssignId, q.lead, q.assignee, q.actor, st.now)},
                       !.nextAssignId = @ + 1,
                       !.assigning = @ \ {q}])

\* await LeadAssignment.create(...): the store hands out the next id; the
\* foreign key rejects the row when the lead has been deleted meanwhile
assignLeadCreate(st, q) ==
  IF ~LeadExists(st, q.lead)
  THEN Done(500, NoReport, [st EXCEPT !.assigning = @ \ {q}])
  ELSE Done(201, NoReport,
            [st EXCEPT !.ledger = @ \cup
                          {NewRow(st.nextAssignId, q.lead, q.assignee, q.actor, st.now)},
                       !.nextAssignId = @ + 1,
                       !.assigning = @ \ {q}])

AssignLeadBegin(req, actor, id, assignee_id) ==
  /\ \A q \in assigning : q.req # req
  /\ roleMiddleware({"admin", "manager"}, actor)
  /\ Apply(assignLeadBegin(Store, req, actor, id, assignee_id))

AssignLeadFindLead(req) ==
  \E q \in assigning :
    /\ q.req = req /\ q.pc = "findLead"
    /\ Apply(assignLeadFindLead(Store, q))

AssignLeadFindUser(req) ==
  \E q \in assigning :
    /\ q.req = req /\ q.pc = "findUser"
    /\ Apply(assignLeadFindUser(Store, q))

AssignLeadCreate(req) ==
  \E q \in assigning :
    /\ q.req = req /\ q.pc = "create"
    /\ Apply(assignLeadCreate(Store, q))

\* ------------------------------------------------------------- bulk leads
\* getUserRoleValue: the role value of the users row, "null" when there is none
getUserRoleValue(userId) == IF userId \in Users THEN RoleOf[userId] ELSE "null"

\* isRepUnderManager: repId is a member of at least one team managerId manages
isRepUnderManager(st, managerId, repId) ==
  LET teamIds == { t \in Teams : <<t, managerId>> \in st.teamManagers }
  IN IF teamIds = {} THEN FALSE
     ELSE \E t \in teamIds : <<t, repId>> \in st.teamMembers

\* getLatestAssignmentsMap: lead_id -> assignee_id over the rows whose id is
\* in LATEST_ASSIGNMENT_IDS and whose lead_id is in leadIds
getLatestAssignmentsMap(st, leadIds) ==
  LET latestRows == { r \in st.ledger :
                        r.id \in LATEST_ASSIGNMENT_IDS(st) /\ r.lead_id \in leadIds }
  IN [ l \in { r.lead_id : r \in latestRows } |->
         (CHOOSE r \in latestRows : r.lead_id = l).assignee_id ]

\* the role matrix with an admin allowed to target any existing user
bulkAssignRoleCheckAdminAny(st, actor, assignee_id) ==
  LET assigneeRole == getUserRoleValue(assignee_id)
  IN IF assigneeRole = "null" THEN 404
     ELSE IF RoleOf[actor] = "admin" THEN 200
     ELSE IF RoleOf[actor] = "manager"
       THEN (IF assigneeRole # "sales_rep" THEN 403
             ELSE IF ~isRepUnderManager(st, actor, assignee_id) THEN 403 ELSE 200)
     ELSE 403

\* bulkAssign, "Validate roles": the status the role matrix answers, 200 = pass
bulkAssignRoleCheck(st, actor, assignee_id) ==
  LET assigneeRole == getUserRoleValue(assignee_id)
  IN IF assigneeRole = "null" THEN 404
     ELSE IF RoleOf[actor] = "admin"
       THEN (IF assigneeRole # "manager" THEN 403 ELSE 200)
     ELSE IF RoleOf[actor] = "manager"
       THEN (IF assigneeRole # "sales_rep" THEN 403
             ELSE IF ~isRepUnderManager(st, actor, assignee_id) THEN 403 ELSE 200)
     ELSE 403

\* the worklist without the already_assigned_to_target test: a lead already
\* at the target gets another row
skipReasonOthersOnly(current, assignee_id, overwrite) ==
  IF ~overwrite /\ current # Null /\ current # assignee_id THEN "already_assigned"
  ELSE ""

\* the worklist without the already_assigned test: a lead owned by somebody
\* else is handed to the target even when overwrite is false
skipReasonTargetOnly(current, assignee_id, overwrite) ==
  IF ~overwrite /\ current = assignee_id THEN "already_assigned_to_target"
  ELSE ""

\* bulkAssign, "Build worklist": the reason a found lead is skipped, "" = create
skipReason(current, assignee_id, overwrite) ==
  IF ~overwrite /\ current # Null /\ current # assignee_id THEN "already_assigned"
  ELSE IF ~overwrite /\ current = assignee_id THEN "already_assigned_to_target"
  ELSE ""

\* bulkAssign: foundIds, missing, skipped and toCreate of a request
bulkAssignPlan(st, lead_ids, assignee_id, overwrite) ==
  LET foundIds  == { id \in Range(lead_ids) : LeadExists(st, id) }
      missing   == SelectSeq(lead_ids, LAMBDA id : id \notin foundIds)
      latestMap == getLatestAssignmentsMap(st, foundIds)
      current(id) == IF id \in DOMAIN latestMap THEN latestMap[id] ELSE Null
      skipped   == { [id |-> id, reason |-> skipReason(current(id), assignee_id, overwrite)] :
                       id \in { f \in foundIds : skipReason(current(f), assignee_id, overwrite) # "" } }
      toCreate  == { id \in foundIds : skipReason(current(id), assignee_id, overwrite) = "" }
  IN [foundIds |-> foundIds, missing |-> missing, skipped |-> skipped, toCreate |-> toCreate]

\* bulkAssign that gives up on the whole batch when an id has no lead
bulkAssignAbortOnMissing(st, actor, lead_ids, assignee_id, overwrite) ==
  IF ~roleMiddleware({"admin", "manager"}, actor) THEN Reply(st, 403)
  ELSE IF lead_ids = <<>> \/ assignee_id = Null THEN Reply(st, 400)
  ELSE IF bulkAssignRoleCheck(st, actor, assignee_id) # 200
    THEN Reply(st, bulkAssignRoleCheck(st, actor, assignee_id))
  ELSE IF bulkAssignPlan(st, lead_ids, assignee_id, overwrite).missing # <<>>
    THEN Reply(st, 404)
  ELSE LET plan == bulkAssignPlan(st, lead_ids, assignee_id, overwrite)
           created == Cardinality(plan.toCreate)
           rank(id) == Cardinality({ x \in plan.toCreate : x < id })
       IN Done(200,
               [requested |-> Len(lead_ids), updated |-> created, deleted |-> 0,
                skipped |-> plan.skipped, missing |-> plan.missing],
               [st EXCEPT
                  !.ledger = @ \cup
                     { NewRow(st.nextAssignId + rank(id), id, assignee_id, actor, st.now) :
                         id \in plan.toCreate },
                  !.nextAssignId = @ + created])

\* POST /bulk-leads/assign; the rows of toCreate are inserted in one
\* transaction, in the order of foundIds (ascending lead id)
bulkAssign(st, actor, lead_ids, assignee_id, overwrite) ==
  IF ~roleMiddleware({"admin", "manager"}, actor) THEN Reply(st, 403)
  ELSE IF lead_ids = <<>> \/ assignee_id = Null THEN Reply(st, 400)
  ELSE IF bulkAssignRoleCheck(st, actor, assignee_id) # 200
    THEN Reply(st, bulkAssignRoleCheck(st, actor, assignee_id))
  ELSE LET plan == bulkAssignPlan(st, lead_ids, assignee_id, overwrite)
           created == Cardinality(plan.toCreate)
           rank(id) == Cardinality({ x \in plan.toCreate : x < id })
       IN Done(200,
               [requested |-> Len(lead_ids), updated |-> created, deleted |-> 0,
                skipped |-> plan.skipped, missing |-> plan.missing],
               [st EXCEPT
                  !.ledger = @ \cup
                     { NewRow(st.nextAssignId + rank(id), id, assignee_id, actor, st.now) :
                         id \in plan.toCreate },
                  !.nextAssignId = @ + created])

BulkAssign(actor, lead_ids, assignee_id, overwrite) ==
  /\ actor \in Users
  /\ Apply(bulkAssign(Store, actor, lead_ids, assignee_id, overwrite))

\* bulkAssign await by await.  A request in flight is a record of its body,
\* the locals it has computed so far (foundIds, missing, skipped, toCreate),
\* pc, the part it is about to run, and since, the ledger id counter when the
\* request came in
bulkAssignBegin(st, req, actor, lead_ids, assignee_id, overwrite) ==
  IF ~roleMiddleware({"admin", "manager"}, actor) THEN Reply(st, 403)
  ELSE IF lead_ids = <<>> \/ assignee_id = Null THEN Reply(st, 400)
  ELSE Done(0, NoReport,
            [st EXCEPT !.bulkAssigning = @ \cup
               { [req |-> req, actor |-> actor, lead_ids |-> lead_ids,
                  assignee |-> assignee_id, overwrite |-> overwrite,
                  pc |-> "roles", foundIds |-> {}, missing |-> <<>>,
                  skipped |-> {}, toCreate |-> {}, since |-> st.nextAssignId] }])

\* "Validate roles": getUserRoleValue and isRepUnderManager
bulkAssignValidateRoles(st, q) ==
  IF bulkAssignRoleCheck(st, q.actor, q.assignee) # 200
  THEN Done(bulkAssignRoleCheck(st, q.actor, q.assignee), NoReport,
            [st EXCEPT !.bulkAssigning = @ \ {q}])
  ELSE Done(0, NoReport,
            [st EXCEPT !.bulkAssigning = (@ \ {q}) \cup {[q EXCEPT !.pc = "findLeads"]}])

\* await Lead.findAll({ id IN lead_ids }): foundIds and missing
bulkAssignFindLeads(st, q) ==
  LET foundIds == { id \in Range(q.lead_ids) : LeadExists(st, id) }
  IN Done(0, NoReport,
          [st EXCEPT !.bulkAssigning = (@ \ {q}) \cup
             {[q EXCEPT !.pc = "latest", !.foundIds = foundIds,
                        !.missing = SelectSeq(q.lead_ids, LAMBDA id : id \notin foundIds)]}])

\* await getLatestAssignmentsMap([...foundIds]), then the worklist loop
bulkAssignLatest(st, q) ==
  LET latestMap == getLatestAssignmentsMap(st, q.foundIds)
      current(id) == IF id \in DOMAIN latestMap THEN latestMap[id] ELSE Null
      reason(id) == skipReason(current(id), q.assignee, q.overwrite)
  IN Done(0, NoReport,
          [st EXCEPT !.bulkAssigning = (@ \ {q}) \cup
             {[q EXCEPT !.pc = "insert",
                        !.skipped = { [id |-> id, reason |-> reason(id)] :
                                        id \in { f \in q.foundIds : reason(f) # "" } },
                        !.toCreate = { id \in q.foundIds : reason(id) = "" }]}])

\* await sequelize.transaction(...): the rows of toCreate are written; the
\* foreign key rejects a row whose lead has been deleted meanwhile, the
\* transaction rolls back and the catch block answers 500
bulkAssignInsert(st, q) ==
  LET rank(id) == Cardinality({ x \in q.toCreate : x < id })
  IN IF \E id \in q.toCreate : ~LeadExists(st, id)
     THEN Done(500, NoReport, [st EXCEPT !.bulkAssigning = @ \ {q}])
     ELSE Done(0, NoReport,
               [st EXCEPT
                  !.ledger = @ \cup
                     { NewRow(st.nextAssignId + rank(id), id, q.assignee, q.actor, st.now) :
                         id \in q.toCreate },
                  !.nextAssignId = @ + Cardinality(q.toCreate),
                  !.bulkAssigning = (@ \ {q}) \cup {[q EXCEPT !.pc = "respond"]}])

\* the handler resumes after the transaction: return resSuccess(...)
bulkAssignRespond(st, q) ==
  Done(200,
       [requested |-> Len(q.lead_ids), updated |-> Cardinality(q.toCreate),
        deleted |-> 0, skipped |-> q.skipped, missing |-> q.missing],
       [st EXCEPT !.bulkAssigning = @ \ {q}])

BulkAssignBegin(req, actor, lead_ids, assignee_id, overwrite) ==
  /\ \A q \in bulkAssigning : q.req # req
  /\ Apply(bulkAssignBegin(Store, req, actor, lead_ids, assignee_id, overwrite))

BulkAssignValidateRoles(req) ==
  \E q \in bulkAssigning :
    /\ q.req = req /\ q.pc = "roles"
    /\ Apply(bulkAssignValidateRoles(Store, q))

BulkAssignFindLeads(req) ==
  \E q \in bulkAssigning :
    /\ q.req = req /\ q.pc = "findLeads"
    /\ Apply(bulkAssignFindLeads(Store, q))

BulkAssignLatest(req) ==
  \E q \in bulkAssigning :
    /\ q.req = req /\ q.pc = "latest"
    /\ Apply(bulkAssignLatest(Store, q))

BulkAssignInsert(req) ==
  \E q \in bulkAssigning :
    /\ q.req = req /\ q.pc = "insert"
    /\ Apply(bulkAssignInsert(Store, q))

BulkAssignRespond(req) ==
  \E q \in bulkAssigning :
    /\ q.req = req /\ q.pc = "respond"
    /\ Apply(bulkAssignRespond(Store, q))

\* bulkDeleteLeads that reports every requested id as deleted
bulkDeleteLeadsCountRequested(st, actor, lead_ids) ==
  IF ~roleMiddleware({"admin", "manager"}, actor) THEN Reply(st, 403)
  ELSE IF lead_ids = <<>> THEN Reply(st, 400)
  ELSE LET foundIds == { id \in Range(lead_ids) : LeadExists(st, id) }
           missing  == SelectSeq(lead_ids, LAMBDA id : id \notin foundIds)
       IN Done(200,
               [requested |-> Len(lead_ids), updated |-> 0,
                deleted |-> Len(lead_ids), skipped |-> {}, missing |-> missing],
               [st EXCEPT
                  !.ledger = { r \in @ : r.lead_id \notin foundIds },
                  !.leads = { l \in @ : l.id \notin foundIds }])

\* GET /bulk-leads/targets (admin, manager): the active users for an admin, the
\* active sales reps of the managed teams for a manager
getAssignableTargets(st, actor) ==
  IF RoleOf[actor] = "admin"
    THEN [status |-> 200, targets |-> { u \in Users : st.isActive[u] }]
  ELSE IF RoleOf[actor] = "manager"
    THEN LET teamIds == { t \in Teams : <<t, actor>> \in st.teamManagers }
         IN [status |-> 200,
             targets |-> { u \in Users :
                             /\ st.isActive[u]
                             /\ RoleOf[u] = "sales_rep"
                             /\ \E t \in teamIds : <<t, u>> \in st.teamMembers }]
  ELSE [status |-> 403, targets |-> {}]

\* DELETE /bulk-leads/delete: ledger rows of the found leads, then the leads,
\* in one transaction
bulkDeleteLeads(st, actor, lead_ids) ==
  IF ~roleMiddleware({"admin", "manager"}, actor) THEN Reply(st, 403)
  ELSE IF lead_ids = <<>> THEN Reply(st, 400)
  ELSE IF RoleOf[actor] = "sales_rep" THEN Reply(st, 403)
  ELSE LET foundIds == { id \in Range(lead_ids) : LeadExists(st, id) }
           missing  == SelectSeq(lead_ids, LAMBDA id : id \notin foundIds)
       IN Done(200,
               [requested |-> Len(lead_ids), updated |-> 0,
                deleted |-> Cardinality(foundIds),
                skipped |-> {}, missing |-> missing],
               [st EXCEPT
                  !.ledger = { r \in @ : r.lead_id \notin foundIds },
                  !.leads = { l \in @ : l.id \notin foundIds }])

BulkDeleteLeads(actor, lead_ids) ==
  /\ actor \in Users
  /\ Apply(bulkDeleteLeads(Store, actor, lead_ids))

\* sequelize.transaction(): the statements of a transaction act on a working
\* copy of the store; commit publishes it
txBegin(st) == [committed |-> st, working |-> st]
txCommit(tx) == tx.working

\* a rollback that undoes nothing
txRollbackNothing(tx) == tx.working

\* rollback: every row change of the transaction is undone; auto-increment
\* ids the transaction has used are not handed out again
txRollback(tx) ==
  [tx.committed EXCEPT !.nextLeadId = tx.working.nextLeadId,
                       !.nextAssignId = tx.working.nextAssignId]

\* bulkAssign's transaction after the first n slices of toCreate: slice i is
\* one LeadAssignment.bulkCreate of up to CHUNK rows, in foundIds order
chunkCount(toCreate) == (Cardinality(toCreate) + CHUNK - 1) \div CHUNK

bulkAssignChunks(st, actor, toCreate, assignee_id, n) ==
  LET order == Ascending(toCreate)
      upto  == IF n * CHUNK < Len(order) THEN n * CHUNK ELSE Len(order)
  IN [txBegin(st) EXCEPT
        !.working.ledger = @ \cup
           { NewRow(st.nextAssignId + i - 1, order[i], assignee_id, actor, st.now) : i \in 1..upto },
        !.working.nextAssignId = @ + upto]

\* POST /bulk-leads/assign when the store rejects slice failChunk: the
\* managed transaction rolls back and the catch block answers 500
bulkAssignFail(st, actor, lead_ids, assignee_id, overwrite, failChunk) ==
  IF ~roleMiddleware({"admin", "manager"}, actor) THEN Reply(st, 403)
  ELSE IF lead_ids = <<>> \/ assignee_id = Null THEN Reply(st, 400)
  ELSE IF bulkAssignRoleCheck(st, actor, assignee_id) # 200
    THEN Reply(st, bulkAssignRoleCheck(st, actor, assignee_id))
  ELSE LET plan == bulkAssignPlan(st, lead_ids, assignee_id, overwrite)
       IN IF failChunk > chunkCount(plan.toCreate)
          THEN bulkAssign(st, actor, lead_ids, assignee_id, overwrite)
          ELSE Reply(txRollback(bulkAssignChunks(st, actor, plan.toCreate,
                                                 assignee_id, failChunk - 1)), 500)

BulkAssignFail(actor, lead_ids, assignee_id, overwrite, failChunk) ==
  /\ actor \in Users
  /\ Apply(bulkAssignFail(Store, actor, lead_ids, assignee_id, overwrite, failChunk))

\* bulkDeleteLeads' transaction after its first n destroy statements:
\* LeadAssignment.destroy, then Lead.destroy
bulkDeleteSteps(st, foundIds, n) ==
  [txBegin(st) EXCEPT
     !.working.ledger = IF n >= 1 THEN { r \in @ : r.lead_id \notin foundIds } ELSE @,
     !.working.leads = IF n >= 2 THEN { l \in @ : l.id \notin foundIds } ELSE @]

\* DELETE /bulk-leads/delete when the store rejects destroy statement
\* failStep: the catch block rolls the transaction back and answers 500
bulkDeleteLeadsFail(st, actor, lead_ids, failStep) ==
  IF ~roleMiddleware({"admin", "manager"}, actor) THEN Reply(st, 403)
  ELSE IF lead_ids = <<>> THEN Reply(st, 400)
  ELSE IF RoleOf[actor] = "sales_rep" THEN Reply(st, 403)
  ELSE LET foundIds == { id \in Range(lead_ids) : LeadExists(st, id) }
       IN IF foundIds = {}
          THEN bulkDeleteLeads(st, actor, lead_ids)
          ELSE Reply(txRollback(bulkDeleteSteps(st, foundIds, failStep - 1)), 500)

BulkDeleteLeadsFail(actor, lead_ids, failStep) ==
  /\ actor \in Users
  /\ Apply(bulkDeleteLeadsFail(Store, actor, lead_ids, failStep))

\* ------------------------------------------------------------------ teams
\* POST /teams/:id/members (admin)
addMemberToTeam(st, actor, id, user_id) ==
  IF ~roleMiddleware({"admin"}, actor) THEN Reply(st, 403)
  ELSE IF id \notin Teams \/ user_id \notin Users THEN Reply(st, 404)
  ELSE IF <<id, user_id>> \in st.teamMembers THEN Reply(st, 400)
  ELSE Done(201, NoReport, [st EXCEPT !.teamMembers = @ \cup {<<id, user_id>>}])

AddMemberToTeam(actor, id, user_id) ==
  /\ actor \in Users
  /\ Apply(addMemberToTeam(Store, actor, id, user_id))

\* DELETE /teams/:id/members/:userId (admin, manager)
removeMemberFromTeam(st, actor, id, userId) ==
  IF ~roleMiddleware({"admin", "manager"}, actor) THEN Reply(st, 403)
  ELSE IF <<id, userId>> \notin st.teamMembers THEN Reply(st, 404)
  ELSE Done(200, NoReport, [st EXCEPT !.teamMembers = @ \ {<<id, userId>>}])

RemoveMemberFromTeam(actor, id, userId) ==
  /\ actor \in Users
  /\ Apply(removeMemberFromTeam(Store, actor, id, userId))

\* PUT /teams/:id bodies: manager_ids and members are optional lists
UpdateTeamBodies ==
  { [members |-> {}], [members |-> {2, 3}], [manager_ids |-> {2}],
    [manager_ids |-> {}, members |-> {3}] }

\* User.findAll({ id IN ids, is_active: true })
validUsers(st, ids) == { u \in ids \cap Users : st.isActive[u] }

\* PUT /teams/:id (admin): a given manager_ids list replaces the team's
\* managers, a given members list replaces its members; only active users
\* are written
updateTeam(st, actor, id, body) ==
  IF ~roleMiddleware({"admin"}, actor) THEN Reply(st, 403)
  ELSE IF id \notin Teams THEN Reply(st, 404)
  ELSE LET managers == IF "manager_ids" \in DOMAIN body
                       THEN { x \in st.teamManagers : x[1] # id } \cup
                            { <<id, u>> : u \in validUsers(st, body.manager_ids) }
                       ELSE st.teamManagers
           members  == IF "members" \in DOMAIN body
                       THEN { x \in st.teamMembers : x[1] # id } \cup
                            { <<id, u>> : u \in validUsers(st, body.members) }
                       ELSE st.teamMembers
       IN Done(200, NoReport,
               [st EXCEPT !.teamManagers = managers, !.teamMembers = members])

UpdateTeam(actor, id, body) ==
  /\ actor \in Users
  /\ Apply(updateTeam(Store, actor, id, body))

\* DELETE /teams/my/members/:userId: the team is the one of the first
\* team_managers row of the caller
removeMemberFromMyTeam(st, actor, userId) ==
  LET mine == { t \in Teams : <<t, actor>> \in st.teamManagers }
  IN IF mine = {} THEN Reply(st, 404)
     ELSE IF userId = actor THEN Reply(st, 400)
     ELSE LET team_id == CHOOSE t \in mine : \A o \in mine : t <= o
          IN IF <<team_id, userId>> \notin st.teamMembers THEN Reply(st, 404)
             ELSE Done(200, NoReport,
                       [st EXCEPT !.teamMembers = @ \ {<<team_id, userId>>}])

RemoveMemberFromMyTeam(actor, userId) ==
  /\ actor \in Users
  /\ Apply(removeMemberFromMyTeam(Store, actor, userId))

\* POST /supports/teams/:id/managers (admin); the manager-role test is commented out
assignManagerToTeam(st, actor, teamId, userId) ==
  IF ~roleMiddleware({"admin"}, actor) THEN Reply(st, 403)
  ELSE IF teamId \notin Teams \/ userId \notin Users THEN Reply(st, 404)
  ELSE IF <<teamId, userId>> \in st.teamManagers THEN Reply(st, 400)
  ELSE Done(201, NoReport, [st EXCEPT !.teamManagers = @ \cup {<<teamId, userId>>}])

AssignManagerToTeam(actor, teamId, userId) ==
  /\ actor \in Users
  /\ Apply(assignManagerToTeam(Store, actor, teamId, userId))

\* DELETE /supports/teams/:id/managers/:userId (admin)
removeManagerFromTeam(st, actor, teamId, userId) ==
  IF ~roleMiddleware({"admin"}, actor) THEN Reply(st, 403)
  ELSE IF teamId \notin Teams \/ userId \notin Users THEN Reply(st, 404)
  ELSE IF <<teamId, userId>> \notin st.teamManagers THEN Reply(st, 404)
  ELSE Done(200, NoReport, [st EXCEPT !.teamManagers = @ \ {<<teamId, userId>>}])

RemoveManagerFromTeam(actor, teamId, userId) ==
  /\ actor \in Users
  /\ Apply(removeManagerFromTeam(Store, actor, teamId, userId))

\* ---------------------------------------------------------- lookup tables
\* what the store does with a DELETE of a row that leads still reference:
\* the schema's ON DELETE rule is not part of the source
StatusDeleteRules == {"restrict", "cascade"}
SourceDeleteRules == {"restrict", "set_null"}

InUseStatus(st, id) == Cardinality({ l \in st.leads : l.status_id = id })
InUseSource(st, id) == Cardinality({ l \in st.leads : l.source_id = id })

Conflict(st, inUse) ==
  [status |-> 409, report |-> NoReport, store |-> st, in_use_count |-> inUse]

Deleted(st, status) ==
  [status |-> status, report |-> NoReport, store |-> st, in_use_count |-> 0]

\* DELETE /lead/statuses/:id of sourceStatusController (admin): 409 while a
\* lead uses the status
sourceStatus_deleteLeadStatus(st, actor, id) ==
  IF ~roleMiddleware({"admin"}, actor) THEN Deleted(st, 403)
  ELSE IF id \notin st.leadStatuses THEN Deleted(st, 404)
  ELSE IF InUseStatus(st, id) > 0 THEN Conflict(st, InUseStatus(st, id))
  ELSE Deleted([st EXCEPT !.leadStatuses = @ \ {id}], 200)

SourceStatus_deleteLeadStatus(actor, id) ==
  /\ actor \in Users
  /\ Apply(sourceStatus_deleteLeadStatus(Store, actor, id))

\* DELETE /lead/sources/:id of sourceStatusController (admin)
sourceStatus_deleteLeadSource(st, actor, id) ==
  IF ~roleMiddleware({"admin"}, actor) THEN Deleted(st, 403)
  ELSE IF id \notin st.leadSources THEN Deleted(st, 404)
  ELSE IF InUseSource(st, id) > 0 THEN Conflict(st, InUseSource(st, id))
  ELSE Deleted([st EXCEPT !.leadSources = @ \ {id}], 200)

SourceStatus_deleteLeadSource(actor, id) ==
  /\ actor \in Users
  /\ Apply(sourceStatus_deleteLeadSource(Store, actor, id))

\* DELETE /:id of leadStatusController (admin): status.destroy() with no
\* look at the leads; for a status in use the store either rejects the
\* delete (catch block) or deletes the leads, and their ledger rows, with it
leadStatus_deleteLeadStatus(st, actor, id, rule) ==
  IF ~roleMiddleware({"admin"}, actor) THEN Deleted(st, 403)
  ELSE IF id \notin st.leadStatuses THEN Deleted(st, 404)
  ELSE IF InUseStatus(st, id) > 0 /\ rule = "restrict" THEN Deleted(st, 500)
  ELSE LET gone == { l.id : l \in { m \in st.leads : m.status_id = id } }
       IN Deleted([st EXCEPT !.leadStatuses = @ \ {id},
                             !.leads = { l \in @ : l.id \notin gone },
                             !.ledger = { r \in @ : r.lead_id \notin gone }], 200)

LeadStatus_deleteLeadStatus(actor, id, rule) ==
  /\ actor \in Users
  /\ Apply(leadStatus_deleteLeadStatus(Store, actor, id, rule))

\* DELETE /:id of leadSourceController (admin): source.destroy(); for a
\* source in use the store either rejects the delete or sets the leads'
\* source_id to NULL
leadSource_deleteLeadSource(st, actor, id, rule) ==
  IF ~roleMiddleware({"admin"}, actor) THEN Deleted(st, 403)
  ELSE IF id \notin st.leadSources THEN Deleted(st, 404)
  ELSE IF InUseSource(st, id) > 0 /\ rule = "restrict" THEN Deleted(st, 500)
  ELSE Deleted([st EXCEPT !.leadSources = @ \ {id},
                          !.leads = { IF l.source_id = id
                                      THEN [l EXCEPT !.source_id = Null] ELSE l : l \in @ }],
               200)

LeadSource_deleteLeadSource(actor, id, rule) ==
  /\ actor \in Users
  /\ Apply(leadSource_deleteLeadSource(Store, actor, id, rule))

\* ------------------------------------------------------------------ users
\* PATCH /users/:id/active (admin, manager)
toggleActive(st, actor, id, is_active) ==
  IF ~roleMiddleware({"admin", "manager"}, actor) THEN Reply(st, 403)
  ELSE IF id \notin Users THEN Reply(st, 404)
  ELSE Done(200, NoReport, [st EXCEPT !.isActive = [@ EXCEPT ![id] = is_active]])

ToggleActive(actor, id, is_active) ==
  /\ actor \in Users
  /\ Apply(toggleActive(Store, actor, id, is_active))

\* ------------------------------------------------------------------ reads
\* query strings of GET /leads (Null / <<>> = parameter not supplied)
NoQuery ==
  [status_id |-> Null, source_id |-> Null, assignee_id |-> Null,
   search |-> <<>>, page |-> Null, limit |-> Null]
Queries ==
  { NoQuery,
    [NoQuery EXCEPT !.status_id = 2],
    [NoQuery EXCEPT !.source_id = 1],
    [NoQuery EXCEPT !.search = <<"n">>],
    [NoQuery EXCEPT !.assignee_id = 1],
    [NoQuery EXCEPT !.assignee_id = 3],
    [NoQuery EXCEPT !.page = 2, !.limit = 1] }

\* column LIKE '%search%'
Like(value, search) ==
  \E i \in 0..(Len(value) - Len(search)) : SubSeq(value, i + 1, i + Len(search)) = search

\* the include joined on every ledger row instead of the latest one: a lead
\* stays iff any of its rows belongs to the assignee
buildAnyAssignmentInclude(st, assigneeId) ==
  IF assigneeId = Null THEN { l.id : l \in st.leads }
  ELSE { l.id : l \in { m \in st.leads :
           \E r \in RowsOf(st, m.id) : r.assignee_id = assigneeId } }

\* buildLatestAssignmentInclude(assigneeId): the leads the include keeps. The
\* join is required only when an assignee is given: then a lead stays iff its
\* latest ledger row belongs to that assignee
buildLatestAssignmentInclude(st, assigneeId) ==
  IF assigneeId = Null THEN { l.id : l \in st.leads }
  ELSE { l.id : l \in { m \in st.leads :
           \E r \in RowsOf(st, m.id) :
              r.id \in LATEST_ASSIGNMENT_IDS(st) /\ r.assignee_id = assigneeId } }

\* GET /leads: the page of lead ids in ORDER BY id ASC and the distinct count
getLeads(st, actor, query) ==
  LET where(l) ==
        /\ query.status_id # Null => l.status_id = query.status_id
        /\ query.source_id # Null => l.source_id = query.source_id
        /\ query.search # <<>> => Like(l.first_name, query.search)
      pageNum   == IF query.page = Null THEN 1 ELSE query.page
      pageLimit == IF query.limit = Null THEN 10 ELSE query.limit
      offset    == (pageNum - 1) * pageLimit
      latestInclude ==
        IF RoleOf[actor] = "sales_rep"
          THEN buildLatestAssignmentInclude(st, actor)
          ELSE buildLatestAssignmentInclude(st, query.assignee_id)
      matching == { l.id : l \in { m \in st.leads : where(m) } } \cap latestInclude
      ordered  == Ascending(matching)
  IN IF ~roleMiddleware({"admin", "manager", "sales_rep"}, actor)
       THEN [status |-> 403, leads |-> <<>>, total |-> 0]
     ELSE [status |-> 200,
           leads  |-> SubSeq(ordered, offset + 1,
                             IF offset + pageLimit < Len(ordered)
                               THEN offset + pageLimit ELSE Len(ordered)),
           total  |-> Cardinality(matching)]

\* GET /leads/:id: the lead with its current assignee
getLeadById(st, actor, id) ==
  IF ~roleMiddleware({"admin", "manager", "sales_rep"}, actor)
    THEN [status |-> 403, lead |-> Null, assignee |-> Null]
  ELSE IF ~LeadExists(st, id) THEN [status |-> 404, lead |-> Null, assignee |-> Null]
  ELSE [status |-> 200, lead |-> LeadById(st, id),
        assignee |-> IF id \in DOMAIN getLatestAssignmentsMap(st, {id})
                       THEN getLatestAssignmentsMap(st, {id})[id] ELSE Null]

\* LeadAssignment.findAll({ where: { lead_id }, order: [["assigned_at", "DESC"]] }):
\* the lists the store may answer: every row of the lead once, a later
\* assigned_at first; the order of rows with equal assigned_at is the store's
findAllByAssignedAtDesc(st, id) ==
  LET rows == RowsOf(st, id)
      n == Cardinality(rows)
  IN { s \in [1..n -> rows] :
         \A i, j \in 1..n : i < j => s[i] # s[j] /\ s[i].assigned_at >= s[j].assigned_at }

\* GET /leads/:id/assignments: the list the store answered for the lead
getLeadAssignments(st, actor, id, answer) ==
  IF ~roleMiddleware({"admin", "manager", "sales_rep"}, actor)
    THEN [status |-> 403, assignments |-> <<>>]
  ELSE IF ~LeadExists(st, id) THEN [status |-> 404, assignments |-> <<>>]
  ELSE [status |-> 200, assignments |-> answer]

\* a scope that takes the members of every team, managed by the caller or not
resolveManagerAssigneesAnyTeam(st, managerId) ==
  {managerId} \cup { m[2] : m \in st.teamMembers }

\* resolveManagerAssignees: the manager and the members of the teams they manage
resolveManagerAssignees(st, managerId) ==
  LET teamIds == { t \in Teams : <<t, managerId>> \in st.teamManagers }
  IN IF teamIds = {} THEN {managerId}
     ELSE {managerId} \cup { m[2] : m \in { x \in st.teamMembers : x[1] \in teamIds } }

\* -------------------------------------------------------------- dashboard
\* assigneeIds of buildSummary: null for the admin, a list of user ids otherwise
ScopeAll == [all |-> TRUE, ids |-> {}]
Scope(ids) == [all |-> FALSE, ids |-> ids]

\* Lead joined with LeadAssignments through buildAssignmentInclude: one
\* <<lead id, row id>> per matching ledger row; without a restriction the
\* join is optional and a lead with no row comes once, with Null
buildAssignmentInclude(st, assigneeIdsOrNull) ==
  IF assigneeIdsOrNull.all
  THEN { <<r.lead_id, r.id>> : r \in { x \in st.ledger : LeadExists(st, x.lead_id) } }
         \cup { <<l.id, Null>> : l \in { m \in st.leads : RowsOf(st, m.id) = {} } }
  ELSE { <<r.lead_id, r.id>> :
           r \in { x \in st.ledger : /\ LeadExists(st, x.lead_id)
                                     /\ x.assignee_id \in assigneeIdsOrNull.ids } }

\* COUNT over the joined rows, without DISTINCT
countJoinedRows(joined) == Cardinality(joined)

\* Lead.count({ include, distinct: true, col: "id" })
countDistinct(joined) == Cardinality({ j[1] : j \in joined })

\* the breakdown as the GROUP BY returns it: categories without a lead are absent
countedOnlyStatus(allStatuses, countedRows) ==
  LET present == { r.status_id : r \in countedRows } \cap Range(allStatuses)
  IN [i \in 1..Cardinality(present) |->
        CHOOSE r \in countedRows : r.status_id = Ascending(present)[i]]

\* normalizeStatusBreakdown: one entry per row of allStatuses, 0 where the
\* GROUP BY returned no row
normalizeStatusBreakdown(allStatuses, countedRows) ==
  [i \in DOMAIN allStatuses |->
     [status_id |-> allStatuses[i],
      count |-> IF \E r \in countedRows : r.status_id = allStatuses[i]
                THEN (CHOOSE r \in countedRows : r.status_id = allStatuses[i]).count
                ELSE 0]]

normalizeSourceBreakdown(allSources, countedRows) ==
  [i \in DOMAIN allSources |->
     [source_id |-> allSources[i],
      count |-> IF \E r \in countedRows : r.source_id = allSources[i]
                THEN (CHOOSE r \in countedRows : r.source_id = allSources[i]).count
                ELSE 0]]

\* GROUP BY status_id / source_id over a set of lead ids, one row per value
\* that occurs (a NULL source_id included)
groupByStatus(st, ids) ==
  { [status_id |-> s, count |-> Cardinality({ l \in st.leads : l.id \in ids /\ l.status_id = s })] :
      s \in { l.status_id : l \in { m \in st.leads : m.id \in ids } } }

groupBySource(st, ids) ==
  { [source_id |-> s, count |-> Cardinality({ l \in st.leads : l.id \in ids /\ l.source_id = s })] :
      s \in { l.source_id : l \in { m \in st.leads : m.id \in ids } } }

\* buildSummary; recentLeads and newThisWeek depend on created_at, which the
\* model does not keep
buildSummary(st, assigneeIds, includeAdminKPIs, adminUserId) ==
  LET joined == buildAssignmentInclude(st, assigneeIds)
      ids    == { j[1] : j \in joined }
  IN [totalLeads |-> countDistinct(joined),
      leadsByStatus |->
        normalizeStatusBreakdown(Ascending(st.leadStatuses), groupByStatus(st, ids)),
      leadsBySource |->
        normalizeSourceBreakdown(Ascending(st.leadSources), groupBySource(st, ids)),
      unassignedLeads |->
        IF includeAdminKPIs
        THEN countDistinct(buildAssignmentInclude(st, Scope({adminUserId})))
        ELSE 0]

\* the scope taken over every ledger row: a lead counts for whoever ever held it
everAssignedTo(st, assignees) ==
  { l.id : l \in { m \in st.leads :
      \E r \in RowsOf(st, m.id) : r.assignee_id \in assignees } }

\* leads whose latest ledger row names one of the assignees
latestAssignedTo(st, assignees) ==
  { l.id : l \in { m \in st.leads : LatestAssigneeOf(st, m.id) \in assignees \ {Null} } }

\* GET /dashboard/summary/admin (admin)
getAdminSummary(st, actor) ==
  IF ~roleMiddleware({"admin"}, actor) THEN [status |-> 403]
  ELSE [status |-> 200, data |-> buildSummary(st, ScopeAll, TRUE, actor)]

\* String.prototype.localeCompare on names of lower-case letters: negative,
\* zero or positive as a sorts before, with or after b
localeCompare(a, b) ==
  LET n == IF Len(a) < Len(b) THEN Len(a) ELSE Len(b)
      diffs == { i \in 1..n : a[i] # b[i] }
  IN IF diffs = {} THEN Len(a) - Len(b)
     ELSE LET k == CHOOSE i \in diffs : \A j \in diffs : i <= j
          IN a[k] - b[k]

\* the latest rows of the scope grouped by assignee_id: the assignees without
\* a latest row are absent
latestGroupedRows(st, assignee_ids) ==
  { [assignee_id |-> u,
     count |-> Cardinality({ r \in st.ledger :
                 r.id \in LATEST_ASSIGNMENT_IDS(st) /\ r.assignee_id = u })] :
      u \in { r.assignee_id : r \in { x \in st.ledger :
                 x.id \in LATEST_ASSIGNMENT_IDS(st) /\ x.assignee_id \in assignee_ids } } }

\* the sort of leads_by_member: count descending, then full_name
sortByCountThenName(entries) ==
  CHOOSE s \in [1..Cardinality(entries) -> entries] :
    \A i, j \in 1..Cardinality(entries) :
      i < j => \/ s[i].count > s[j].count
               \/ /\ s[i].count = s[j].count
                  /\ localeCompare(FullName[s[i].assignee_id], FullName[s[j].assignee_id]) < 0

\* leads_by_member made of the grouped rows alone, without the zero entries
leadsByMemberCountedOnly(st, assignee_ids) ==
  sortByCountThenName(latestGroupedRows(st, assignee_ids))

\* leads_by_member: one entry per users row of the scope, its count taken
\* from the grouped rows or 0
leadsByMember(st, assignee_ids) ==
  LET teamUsers == assignee_ids \cap Users
      counted == latestGroupedRows(st, assignee_ids)
      entries == { [assignee_id |-> u,
                    count |-> IF \E r \in counted : r.assignee_id = u
                              THEN (CHOOSE r \in counted : r.assignee_id = u).count
                              ELSE 0] : u \in teamUsers }
  IN sortByCountThenName(entries)

\* GET /dashboard/summary/manager (manager); recent_team_leads is the set of
\* leads its query selects, before ORDER BY created_at and LIMIT
getManagerSummary(st, actor) ==
  IF ~roleMiddleware({"manager"}, actor) THEN [status |-> 403]
  ELSE LET assignee_ids == resolveManagerAssignees(st, actor)
       IN [status |-> 200,
           data |-> [self_leads |-> Cardinality(latestAssignedTo(st, {actor})),
                     team_leads |-> Cardinality(latestAssignedTo(st, assignee_ids)),
                     recent_team_leads |-> latestAssignedTo(st, assignee_ids),
                     leads_by_member |-> leadsByMember(st, assignee_ids)]]

\* GET /dashboard/summary/sales_rep (sales_rep); recentAssigned and
\* recentUpdates are the sets of leads their queries select, before ORDER BY
\* assigned_at / updated_at and LIMIT
getSalesRepSummary(st, actor) ==
  IF ~roleMiddleware({"sales_rep"}, actor) THEN [status |-> 403]
  ELSE LET mine == latestAssignedTo(st, {actor})
           newStatus == { s \in st.leadStatuses : StatusValue[s] = "new" }
       IN [status |-> 200,
           data |-> [assigned |-> Cardinality(mine),
                     recentAssigned |->
                       { r.lead_id : r \in { x \in st.ledger :
                           x.assignee_id = actor /\ x.id \in LATEST_ASSIGNMENT_IDS(st) } },
                     recentUpdates |-> mine,
                     inboxNew |-> Cardinality({ l \in st.leads :
                                    l.id \in mine /\ l.status_id \in newStatus }),
                     byStatus |-> normalizeStatusBreakdown(Ascending(st.leadStatuses),
                                                           groupByStatus(st, mine)),
                     bySource |-> normalizeSourceBreakdown(Ascending(st.leadSources),
                                    { r \in groupBySource(st, mine) : r.source_id # Null })]]

\* ------------------------------------------------------------------ clock
\* the clock moves on to the next value assigned_at can hold
Tick ==
  /\ now < MaxClock
  /\ Apply(Done(0, NoReport, [Store EXCEPT !.now = @ + 1]))

\* ------------------------------------------------------------ specifications
\* leads and their ledger
Next ==
  \/ \E a \in Users, b \in CreateBodies : CreateLeadInsert(a, b)
  \/ \E p \in Pending : CreateLeadAssign(p)
  \/ \E p \in Pending : CreateLeadAssignFail(p)
  \/ \E a \in Users, n \in 1..MaxIds : ImportLeads(a, n)
  \/ \E a \in Users, id \in LeadIds : DeleteLead(a, id)
  \/ \E a \in Users, id \in LeadIds, u \in Users \cup {MissingUser} : AssignLead(a, id, u)
  \/ \E a \in Users, ids \in IdLists, u \in Users, o \in BOOLEAN :
        BulkAssign(a, ids, u, o)
  \/ \E a \in Users, ids \in IdLists : BulkDeleteLeads(a, ids)
  \/ \E a \in Users, t \in MemberTeams, u \in MemberInputs : AddMemberToTeam(a, t, u)
  \/ \E a \in Users, t \in MemberTeams, u \in MemberInputs : RemoveMemberFromTeam(a, t, u)

Spec == Init /\ [][Next]_vars

\* a lead's life under single-lead requests: create, assign, update, delete
NextUpdate ==
  \/ \E a \in Users, b \in CreateBodies : CreateLeadInsert(a, b)
  \/ \E p \in Pending : CreateLeadAssign(p)
  \/ \E p \in Pending : CreateLeadAssignFail(p)
  \/ \E a \in Users, id \in LeadIds, u \in Users : AssignLead(a, id, u)
  \/ \E a \in Users, id \in LeadIds, b \in UpdateBodies : UpdateLead(a, id, b)
  \/ \E a \in Users, id \in LeadIds : DeleteLead(a, id)

SpecUpdate == Init /\ [][NextUpdate]_vars

\* teams, their managers and members, user activation, and bulk assignment
NextTeams ==
  \/ \E a \in Users, n \in 1..MaxIds : ImportLeads(a, n)
  \/ \E a \in Users, ids \in IdLists, u \in Users \cup {MissingUser}, o \in BOOLEAN :
        BulkAssign(a, ids, u, o)
  \/ \E a \in Users, t \in Teams, u \in Users : AddMemberToTeam(a, t, u)
  \/ \E a \in Users, t \in Teams, u \in Users : RemoveMemberFromTeam(a, t, u)
  \/ \E a \in Users, t \in Teams, u \in ManagerInputs : AssignManagerToTeam(a, t, u)
  \/ \E a \in Users, t \in Teams, u \in ManagerInputs : RemoveManagerFromTeam(a, t, u)
  \/ \E a \in Users, t \in Teams, b \in UpdateTeamBodies : UpdateTeam(a, t, b)
  \/ \E a \in Users, u \in Users : RemoveMemberFromMyTeam(a, u)
  \/ \E a \in Users, u \in ToggleInputs, b \in BOOLEAN : ToggleActive(a, u, b)

SpecTeams == Init /\ [][NextTeams]_vars

\* the bulk endpoints with the store failing inside their transactions
FailChunks == 1..((MaxIds + CHUNK - 1) \div CHUNK)
FailSteps == {1, 2}

NextBulk ==
  \/ \E a \in Users, n \in 1..MaxIds : ImportLeads(a, n)
  \/ \E a \in Users, id \in MemberTeams, u \in MemberInputs : AddMemberToTeam(a, id, u)
  \/ \E a \in Users, ids \in IdLists, u \in Users, o \in BOOLEAN :
       BulkAssign(a, ids, u, o)
  \/ \E a \in Users, ids \in IdLists, u \in Users, o \in BOOLEAN, k \in FailChunks :
       BulkAssignFail(a, ids, u, o, k)
  \/ \E a \in Users, id \in LeadIds, u \in Users : AssignLead(a, id, u)
  \/ \E a \in Users, ids \in IdLists : BulkDeleteLeads(a, ids)
  \/ \E a \in Users, ids \in IdLists, k \in FailSteps : BulkDeleteLeadsFail(a, ids, k)

SpecBulk == Init /\ [][NextBulk]_vars

\* leads and the lookup tables their status_id and source_id reference
NextLookups ==
  \/ \E a \in Users, b \in CreateBodies : CreateLeadInsert(a, b)
  \/ \E p \in Pending : CreateLeadAssign(p)
  \/ \E a \in Users, n \in 1..MaxIds : ImportLeads(a, n)
  \/ \E a \in Users, id \in LeadIds, u \in Users : AssignLead(a, id, u)
  \/ \E a \in Users, id \in LeadIds : DeleteLead(a, id)
  \/ \E a \in Users, id \in Statuses : SourceStatus_deleteLeadStatus(a, id)
  \/ \E a \in Users, id \in Sources : SourceStatus_deleteLeadSource(a, id)
  \/ \E a \in Users, id \in Statuses, r \in StatusDeleteRules :
       LeadStatus_deleteLeadStatus(a, id, r)
  \/ \E a \in Users, id \in Sources, r \in SourceDeleteRules :
       LeadSource_deleteLeadSource(a, id, r)

SpecLookups == Init /\ [][NextLookups]_vars

\* assignLead requests running concurrently, next to import and deleteLead
AssignInputs == {1, 3, MissingUser}

NextAssign ==
  \/ \E a \in Users, n \in 1..MaxIds : ImportLeads(a, n)
  \/ \E a \in Users, id \in LeadIds : DeleteLead(a, id)
  \/ \E r \in Requests, a \in Managers, id \in LeadIds, u \in AssignInputs :
       AssignLeadBegin(r, a, id, u)
  \/ \E r \in Requests : AssignLeadFindLead(r)
  \/ \E r \in Requests : AssignLeadFindUser(r)
  \/ \E r \in Requests : AssignLeadCreate(r)

SpecAssign == Init /\ [][NextAssign]_vars
\* assignment histories with the clock running
NextHistory ==
  \/ \E a \in Users, n \in 1..MaxIds : ImportLeads(a, n)
  \/ \E a \in Users, id \in LeadIds, u \in Users : AssignLead(a, id, u)
  \/ \E a \in Users, id \in LeadIds : DeleteLead(a, id)
  \/ Tick

SpecHistory == Init /\ [][NextHistory]_vars
\* bulkAssign requests of an admin running concurrently on leads made by
\* createLead
RaceLists == { <<1>>, <<2, 1>> }

NextBulkAssign ==
  \/ \E a \in Users, b \in CreateBodies : CreateLeadInsert(a, b)
  \/ \E p \in Pending : CreateLeadAssign(p)
  \/ \E r \in Requests, a \in { u \in Users : RoleOf[u] = "admin" }, ids \in RaceLists,
          u \in ManagerInputs, o \in BOOLEAN :
       BulkAssignBegin(r, a, ids, u, o)
  \/ \E r \in Requests : BulkAssignValidateRoles(r)
  \/ \E r \in Requests : BulkAssignFindLeads(r)
  \/ \E r \in Requests : BulkAssignLatest(r)
  \/ \E r \in Requests : BulkAssignInsert(r)
  \/ \E r \in Requests : BulkAssignRespond(r)

SpecBulkAssign == Init /\ [][NextBulkAssign]_vars

\* ------------------------------------------------------------ properties
\* the ledger row of lead id with the maximum id, looked up directly
MaxRow(st, id) == CHOOSE r \in RowsOf(st, id) : \A p \in RowsOf(st, id) : p.id <= r.id

\* the current assignee as the latest-assignment subquery reports it
SubqueryAssignee(st, id) ==
  IF id \in DOMAIN getLatestAssignmentsMap(st, {id})
    THEN getLatestAssignmentsMap(st, {id})[id] ELSE Null

\* C1: for every lead, in every state reached by createLead, assignLead and
\* bulkAssign calls, the current assignee (updateLead's latest-row lookup and
\* the latest-assignment subquery alike) is the assignee_id of the lead's
\* ledger row with the maximum id; it is the creator right after a createLead
\* that completes, it is A right after every successful assignLead(L, A), and
\* it is the target right after a bulkAssign that writes a row for the lead.
C1_LatestIsMaxRow ==
  /\ \A id \in LeadIds :
       RowsOf(Store, id) # {} =>
         /\ LatestAssigneeOf(Store, id) = MaxRow(Store, id).assignee_id
         /\ SubqueryAssignee(Store, id) = MaxRow(Store, id).assignee_id
  /\ \A p \in inflight :
       LET res == createLeadAssign(Store, p)
       IN res.status = 201 =>
            /\ LatestAssigneeOf(res.store, p.lead) = p.actor
            /\ SubqueryAssignee(res.store, p.lead) = p.actor
  /\ \A a \in Users, id \in LeadIds, u \in Users \cup {MissingUser} :
       LET res == assignLead(Store, a, id, u)
       IN res.status = 201 =>
            /\ LatestAssigneeOf(res.store, id) = u
            /\ SubqueryAssignee(res.store, id) = u
  /\ \A a \in Users, ids \in IdLists, u \in Users, o \in BOOLEAN :
       LET res == bulkAssign(Store, a, ids, u, o)
       IN res.store.ledger # ledger =>
            \A id \in { r.lead_id : r \in res.store.ledger \ ledger } :
               /\ LatestAssigneeOf(res.store, id) = u
               /\ SubqueryAssignee(res.store, id) = u

\* a lead made by createLead whose creator row has been followed by a row
\* that hands it to somebody else, who is now its current assignee
C1_Reassigned ==
  \E l \in leads :
    /\ l.updated_by = Null
    /\ Cardinality(RowsOf(Store, l.id)) >= 2
    /\ \E r \in RowsOf(Store, l.id) : r.assignee_id = l.created_by
    /\ LatestAssigneeOf(Store, l.id) # l.created_by
    /\ inflight = {}

\* C2: in every reachable state every lead of the leads table has at least
\* one ledger row, and its first (minimum id) row assigns it to its creator.
C2_EveryLeadHasRow ==
  \A l \in leads :
    /\ RowsOf(Store, l.id) # {}
    /\ \E r \in RowsOf(Store, l.id) :
         /\ \A p \in RowsOf(Store, l.id) : r.id <= p.id
         /\ r.assignee_id = l.created_by

\* the ledger rows a handler's result no longer holds unchanged
Lost(res) == ledger \ res.store.ledger

\* C3: the ledger is append-only. Whatever the request, createLead,
\* importLeads, assignLead, bulkAssign, updateLead and the team and user
\* operations leave every existing ledger row in place and unchanged;
\* deleteLead and bulkDeleteLeads remove exactly the rows of the leads they
\* delete and change no other row.
C3_AppendOnly ==
  /\ \A a \in Users, b \in CreateBodies : Lost(createLeadInsert(Store, a, b)) = {}
  /\ \A p \in inflight :
       Lost(createLeadAssign(Store, p)) = {} /\ Lost(createLeadAssignFail(Store, p)) = {}
  /\ \A a \in Users, n \in 1..MaxIds : Lost(importLeads(Store, a, n)) = {}
  /\ \A a \in Users, id \in LeadIds :
       /\ \A u \in Users \cup {MissingUser} : Lost(assignLead(Store, a, id, u)) = {}
       /\ \A b \in UpdateBodies : Lost(updateLead(Store, a, id, b)) = {}
       /\ LET res == deleteLead(Store, a, id)
          IN Lost(res) = IF res.status = 200 THEN RowsOf(Store, id) ELSE {}
  /\ \A a \in Users, ids \in IdLists :
       /\ \A u \in Users \cup {MissingUser}, o \in BOOLEAN :
            Lost(bulkAssign(Store, a, ids, u, o)) = {}
       /\ LET res == bulkDeleteLeads(Store, a, ids)
          IN Lost(res) = IF res.status = 200
                           THEN { r \in ledger : r.lead_id \in Range(ids) } ELSE {}
  /\ \A a \in Users, t \in Teams, u \in Users :
       /\ Lost(addMemberToTeam(Store, a, t, u)) = {}
       /\ Lost(removeMemberFromTeam(Store, a, t, u)) = {}
       /\ Lost(assignManagerToTeam(Store, a, t, u)) = {}
       /\ Lost(removeManagerFromTeam(Store, a, t, u)) = {}
       /\ \A b \in BOOLEAN : Lost(toggleActive(Store, a, u, b)) = {}

\* a lead with a history of at least two rows next to a deleted lead whose
\* rows went with it
C3_HistoryAndDeletion ==
  /\ \E id \in LeadIds : LeadExists(Store, id) /\ Cardinality(RowsOf(Store, id)) >= 2
  /\ \E id \in LeadIds : id < nextLeadId /\ ~LeadExists(Store, id) /\ RowsOf(Store, id) = {}
  /\ \E r \in ledger : r.id > 1 /\ \A q \in ledger : q.id # 1

\* the requested ids that are leads of the store
Existing(st, ids) == { id \in Range(ids) : LeadExists(st, id) }

\* C4 as stated: after a successful bulkAssign with overwrite = false, the
\* same call again appends no ledger row, reports updated = 0 and lists every
\* existing requested lead as skipped with reason already_assigned_to_target.
C4_SecondCallAllAtTarget ==
  \A a \in Users, ids \in IdLists, u \in Users :
    LET first == bulkAssign(Store, a, ids, u, FALSE)
        second == bulkAssign(first.store, a, ids, u, FALSE)
    IN first.status = 200 =>
         /\ second.status = 200
         /\ second.store = first.store
         /\ second.report.updated = 0
         /\ second.report.skipped =
              { [id |-> id, reason |-> "already_assigned_to_target"] :
                  id \in Existing(first.store, ids) }

\* C4: after a successful bulkAssign with overwrite = false, the same call
\* again appends no ledger row, reports updated = 0 and lists every existing
\* requested lead as skipped: with reason already_assigned_to_target when the
\* lead's current assignee is the target, which holds for every lead the
\* first call wrote a row for, and with reason already_assigned when the lead
\* is currently assigned to somebody else.
C4_SecondCallSkipsAll ==
  \A a \in Users, ids \in IdLists, u \in Users :
    LET first == bulkAssign(Store, a, ids, u, FALSE)
        second == bulkAssign(first.store, a, ids, u, FALSE)
    IN first.status = 200 =>
         /\ second.status = 200
         /\ second.store = first.store
         /\ second.report.updated = 0
         /\ second.report.skipped =
              { [id |-> id,
                 reason |-> IF LatestAssigneeOf(first.store, id) = u
                              THEN "already_assigned_to_target"
                              ELSE "already_assigned"] :
                  id \in Existing(first.store, ids) }
         /\ \A r \in first.store.ledger \ ledger :
              [id |-> r.lead_id, reason |-> "already_assigned_to_target"]
                 \in second.report.skipped

\* a request whose first call writes a row for one lead and skips another,
\* so that the second call reports both reasons
C4_FirstCallWrites ==
  \E a \in Users, ids \in IdLists, u \in Users :
    LET first == bulkAssign(Store, a, ids, u, FALSE)
        second == bulkAssign(first.store, a, ids, u, FALSE)
    IN /\ first.status = 200
       /\ first.report.updated = 1
       /\ first.store.nextAssignId <= MaxAssignments + 1
       /\ { s.reason : s \in second.report.skipped } =
            {"already_assigned", "already_assigned_to_target"}

\* C5: the role matrix of bulkAssign. An admin actor with a sales_rep
\* assignee is answered Forbidden; a manager actor with a sales_rep assignee
\* who is a member of a team that manager manages succeeds; a sales_rep actor
\* is answered Forbidden whatever the target; and every Forbidden answer
\* leaves the ledger, and the whole store, as it was.
C5_RoleMatrix ==
  \A a \in Users, ids \in IdLists, u \in Users \cup {MissingUser, Null}, o \in BOOLEAN :
    LET res == bulkAssign(Store, a, ids, u, o)
    IN /\ (RoleOf[a] = "admin" /\ u \in Users /\ RoleOf[u] = "sales_rep") =>
            res.status = 403
       /\ (/\ RoleOf[a] = "manager" /\ u \in Users /\ RoleOf[u] = "sales_rep"
           /\ \E t \in Teams : <<t, a>> \in teamManagers /\ <<t, u>> \in teamMembers) =>
            res.status = 200
       /\ RoleOf[a] = "sales_rep" => res.status = 403
       /\ res.status = 403 => res.store = Store

\* a sales_rep on the manager's team holds a lead the manager handed over
C5_ManagerAssignedRep ==
  \E r \in ledger, t \in Teams :
    /\ RoleOf[r.assigned_by] = "manager" /\ RoleOf[r.assignee_id] = "sales_rep"
    /\ <<t, r.assigned_by>> \in teamManagers /\ <<t, r.assignee_id>> \in teamMembers
    /\ LatestAssigneeOf(Store, r.lead_id) = r.assignee_id
    /\ bulkAssign(Store, r.assigned_by, <<r.lead_id>>, r.assignee_id, FALSE).status = 200

\* the requests of scenario B: an admin, a manager target, leads that all
\* exist, were made by createLead and have a ledger row
ScenarioB(a, ids, m) ==
  /\ RoleOf[a] = "admin" /\ RoleOf[m] = "manager"
  /\ \A id \in Range(ids) :
       LeadExists(Store, id) /\ RowsOf(Store, id) # {} /\ LeadById(Store, id).updated_by = Null

\* the rows a result appended for a lead
Appended(res, id) == { r \in res.store.ledger \ ledger : r.lead_id = id }

\* C6 as stated: in scenario B with overwrite = false every requested lead
\* whose current assignee is not M receives one new row assigning it to M and
\* is counted in updated, every lead already at M is skipped with reason
\* already_assigned_to_target, and missing is empty.
C6_OthersReassigned ==
  \A a \in Users, ids \in IdLists, m \in Users :
    LET res == bulkAssign(Store, a, ids, m, FALSE)
        others == { id \in Range(ids) : LatestAssigneeOf(Store, id) # m }
    IN ScenarioB(a, ids, m) =>
         /\ res.status = 200
         /\ \A id \in others :
              Appended(res, id) = { NewRow(r.id, id, m, a, now) : r \in Appended(res, id) }
              /\ Cardinality(Appended(res, id)) = 1
         /\ res.report.updated = Cardinality(others)
         /\ res.report.skipped =
              { [id |-> id, reason |-> "already_assigned_to_target"] :
                  id \in Range(ids) \ others }
         /\ res.report.missing = <<>>

\* C6: in scenario B with overwrite = false no requested lead receives a new
\* row: a lead whose current assignee is not M is skipped with reason
\* already_assigned, a lead already at M with reason
\* already_assigned_to_target, updated = 0 and missing is empty. With
\* overwrite = true every requested lead receives exactly one new row
\* assigning it to M, updated counts them and nothing is skipped.
C6_OthersSkipped ==
  \A a \in Users, ids \in IdLists, m \in Users :
    LET res == bulkAssign(Store, a, ids, m, FALSE)
        forced == bulkAssign(Store, a, ids, m, TRUE)
        others == { id \in Range(ids) : LatestAssigneeOf(Store, id) # m }
    IN ScenarioB(a, ids, m) =>
         /\ res.status = 200
         /\ res.store = Store
         /\ res.report.updated = 0
         /\ res.report.skipped =
              { [id |-> id, reason |-> "already_assigned"] : id \in others }
              \cup { [id |-> id, reason |-> "already_assigned_to_target"] :
                       id \in Range(ids) \ others }
         /\ res.report.missing = <<>>
         /\ forced.status = 200
         /\ forced.report.updated = Cardinality(Range(ids))
         /\ forced.report.skipped = {}
         /\ \A id \in Range(ids) :
              /\ Cardinality({ r \in forced.store.ledger \ ledger : r.lead_id = id }) = 1
              /\ LatestAssigneeOf(forced.store, id) = m

\* two leads made by createLead, one currently at the manager and one at
\* somebody else: the shape of scenario B
C6_ScenarioBState ==
  \E m \in Users, x, y \in LeadIds :
    /\ ScenarioB(1, <<x, y>>, m)
    /\ LatestAssigneeOf(Store, x) = m
    /\ LatestAssigneeOf(Store, y) # m
    /\ bulkAssign(Store, 1, <<x, y>>, m, FALSE).report.skipped =
         { [id |-> x, reason |-> "already_assigned_to_target"],
           [id |-> y, reason |-> "already_assigned"] }

\* the leads whose latest ledger row assigns them to user u
OwnLeads(st, u) == { l.id : l \in { m \in st.leads : LatestAssigneeOf(st, m.id) = u } }

\* what the default query lists for an actor
Listed(st, actor) == Range(getLeads(st, actor, NoQuery).leads)

SalesReps == { u \in Users : RoleOf[u] = "sales_rep" }

\* C7 as stated: getLeads by a sales_rep U without filters returns exactly
\* the leads whose latest assignee is U and with a filter a subset of them; a
\* lead is listed for U right after U creates it, and is no longer listed
\* once a later ledger row assigns it to another user.
C7_ListedAfterOwnCreate ==
  \A U \in SalesReps :
    /\ Listed(Store, U) = OwnLeads(Store, U)
    /\ \A q \in Queries : Range(getLeads(Store, U, q).leads) \subseteq OwnLeads(Store, U)
    /\ \A b \in { c \in CreateBodies : c.status_id # Null } :
         LET inserted == createLeadInsert(Store, U, b)
             created  == createLeadAssign(inserted.store,
                                          [lead |-> nextLeadId, actor |-> U])
         IN /\ created.status = 201
            /\ nextLeadId \in Listed(created.store, U)
    /\ \A a \in Users, id \in LeadIds, u \in Users \ {U} :
         LET res == assignLead(Store, a, id, u)
         IN res.status = 201 => id \notin Listed(res.store, U)

\* C7: getLeads by a sales_rep U without filters returns exactly the leads
\* whose latest assignee is U, in ascending id order up to the page limit (10
\* by default) with total counting all of them, and with any status, source,
\* search, assignee_id or paging parameter a subset of them. A sales_rep
\* cannot create a lead (POST /leads answers Forbidden and writes nothing); a
\* lead is listed for U right after an assignLead to U, and is no longer
\* listed once a later ledger row assigns it to another user.
C7_SalesRepSeesOwn ==
  \A U \in SalesReps :
    LET own == OwnLeads(Store, U)
        res == getLeads(Store, U, NoQuery)
    IN /\ res.status = 200
       /\ res.total = Cardinality(own)
       /\ res.leads = SubSeq(Ascending(own), 1,
                             IF Cardinality(own) < 10 THEN Cardinality(own) ELSE 10)
       /\ \A q \in Queries :
            /\ Range(getLeads(Store, U, q).leads) \subseteq own
            /\ getLeads(Store, U, q).total <= Cardinality(own)
       /\ \A b \in CreateBodies :
            /\ createLeadInsert(Store, U, b).status = 403
            /\ createLeadInsert(Store, U, b).store = Store
       /\ \A a \in Users, id \in LeadIds :
            /\ LET given == assignLead(Store, a, id, U)
               IN given.status = 201 => id \in Listed(given.store, U)
            /\ \A u \in Users \ {U} :
                 LET taken == assignLead(Store, a, id, u)
                 IN taken.status = 201 => id \notin Listed(taken.store, U)

\* a sales_rep who is listed one of two leads, and a lead the sales_rep once
\* held that a later row has handed to somebody else
C7_OneListedOneGone ==
  \E U \in SalesReps :
    /\ Cardinality(leads) = 2
    /\ Cardinality(Listed(Store, U)) = 1
    /\ \E r \in ledger : r.assignee_id = U /\ r.lead_id \notin Listed(Store, U)
                         /\ LeadExists(Store, r.lead_id)

\* C8: getLeads by a manager M returns only leads whose latest assignee is
\* in M's scope, M and the members of every team M manages: an assigned lead
\* whose latest assignee is outside that scope is never returned to M.
C8_ManagerSeesScopeOnly ==
  \A M \in { u \in Users : RoleOf[u] = "manager" }, q \in Queries :
    \A id \in Range(getLeads(Store, M, q).leads) :
      RowsOf(Store, id) # {} =>
        LatestAssigneeOf(Store, id) \in resolveManagerAssignees(Store, M)

\* C9: getLeadById and getLeadAssignments by a sales_rep expose exactly the
\* leads getLeads lists for that sales_rep: for a lead whose latest assignee
\* is somebody else they return neither the record nor the history.
C9_SingleReadsScoped ==
  \A U \in SalesReps, id \in LeadIds :
    (LeadExists(Store, id) /\ LatestAssigneeOf(Store, id) \notin {Null, U}) =>
      /\ id \notin Listed(Store, U)
      /\ getLeadById(Store, U, id).status # 200
      /\ \A answer \in findAllByAssignedAtDesc(Store, id) :
           getLeadAssignments(Store, U, id, answer).status # 200

\* C10: updateLead by a sales_rep on a lead whose latest assignee is somebody
\* else is answered Forbidden and changes nothing; once an admin has
\* reassigned the lead to the sales_rep with assignLead, the same call
\* succeeds and sets updated_by to the sales_rep.
C10_UpdateAfterReassign ==
  \A U \in SalesReps, id \in LeadIds, b \in UpdateBodies :
    (LeadExists(Store, id) /\ LatestAssigneeOf(Store, id) \notin {Null, U}) =>
      /\ updateLead(Store, U, id, b).status = 403
      /\ updateLead(Store, U, id, b).store = Store
      /\ \A a \in { x \in Users : RoleOf[x] = "admin" } :
           LET reassigned == assignLead(Store, a, id, U)
               updated    == updateLead(reassigned.store, U, id, b)
           IN /\ reassigned.status = 201
              /\ updated.status = 200
              /\ LeadById(updated.store, id).updated_by = U

\* C11: assignLead checks that the assignee is an eligible target for the
\* actor's role: a manager assigning a lead to a sales_rep who is in no team
\* the manager manages is answered Forbidden and no ledger row is written; a
\* missing lead or a missing assignee is answered NotFound and no row is
\* written.
C11_AssignLeadEligibility ==
  \A M \in Managers, id \in LeadIds, u \in Users \cup {MissingUser} :
    LET res == assignLead(Store, M, id, u)
    IN /\ (~LeadExists(Store, id) \/ u \notin Users) =>
            (res.status = 404 /\ res.store = Store)
       /\ (/\ LeadExists(Store, id)
           /\ getUserRoleValue(u) = "sales_rep"
           /\ ~isRepUnderManager(Store, M, u)) =>
            (res.status = 403 /\ res.store = Store)

C13_BulkDeleteExact ==
  \A a \in Users, ids \in IdLists :
    LET res   == bulkDeleteLeads(Store, a, ids)
        gone  == { l \in leads : l.id \in Range(ids) }
    IN IF RoleOf[a] = "sales_rep"
       THEN res.status = 403 /\ res.store = Store
       ELSE /\ res.status = 200
            /\ res.store.leads = leads \ gone
            /\ res.store.ledger = { r \in ledger : ~\E l \in gone : l.id = r.lead_id }
            /\ res.store = [Store EXCEPT !.leads = res.store.leads,
                                         !.ledger = res.store.ledger]
            /\ res.report.requested = Len(ids)
            /\ res.report.deleted = Cardinality(gone)
            /\ res.report.missing = SelectSeq(ids, LAMBDA id : ~LeadExists(Store, id))

\* two leads with ledger rows, of which a bulk delete asking for one existing
\* lead by a manager removes that lead with its two rows and leaves the other
\* lead and its row
C13_OneOfTwoDeleted ==
  /\ Cardinality(leads) = 2
  /\ \E M \in Managers, ids \in IdLists :
       LET res == bulkDeleteLeads(Store, M, ids)
       IN /\ res.report.deleted = 1
          /\ Cardinality(ledger \ res.store.ledger) = 2
          /\ Cardinality(res.store.ledger) = 1
          /\ Cardinality(res.store.leads) = 1

\* C14: a bulk operation is all-or-nothing when the store fails: an error in
\* any slice of bulkAssign's chunked ledger inserts, the later slices
\* included, or in either destroy statement of bulkDeleteLeads, the lead
\* delete that follows the ledger delete included, rolls the transaction
\* back: the ledger and the leads table are what they were before the call,
\* and the call answers 500 with no partial result.  Without a failure the
\* slices add up to the rows bulkAssign commits.
C14_BulkAllOrNothing ==
  /\ \A a \in Users, ids \in IdLists, u \in Users, o \in BOOLEAN :
       LET plan == bulkAssignPlan(Store, ids, u, o)
           ok   == bulkAssign(Store, a, ids, u, o)
       IN ok.status = 200 =>
            /\ txCommit(bulkAssignChunks(Store, a, plan.toCreate, u,
                                         chunkCount(plan.toCreate))) = ok.store
            /\ \A k \in 1..chunkCount(plan.toCreate) :
                 LET res == bulkAssignFail(Store, a, ids, u, o, k)
                 IN /\ res.status = 500
                    /\ res.report = NoReport
                    /\ res.store.ledger = ledger
                    /\ res.store.leads = leads
  /\ \A a \in Users, ids \in IdLists, k \in FailSteps :
       LET ok  == bulkDeleteLeads(Store, a, ids)
           res == bulkDeleteLeadsFail(Store, a, ids, k)
       IN (ok.status = 200 /\ ok.report.deleted > 0) =>
            /\ res.status = 500
            /\ res.report = NoReport
            /\ res.store.ledger = ledger
            /\ res.store.leads = leads

\* both leads ever created are there with one ledger row each, and a third
\* row id has been used by a bulkAssign whose second slice failed
C14_SliceRolledBack ==
  /\ Cardinality(leads) = MaxLeads
  /\ nextLeadId = MaxLeads + 1
  /\ Cardinality(ledger) = MaxLeads
  /\ nextAssignId > MaxLeads + 1
  /\ \E a \in Users, ids \in IdLists :
       /\ bulkDeleteLeads(Store, a, ids).report.deleted = MaxLeads
       /\ bulkDeleteLeadsFail(Store, a, ids, 2).status = 500

\* the answers of the three operations that can remove the membership row
\* of user u in team T: removeMemberFromTeam, removeMemberFromMyTeam called
\* by M, and updateTeam
Removals(M, T, u) ==
  { removeMemberFromTeam(Store, a, T, u) : a \in Users }
    \cup { removeMemberFromMyTeam(Store, M, u) }
    \cup { updateTeam(Store, a, T, b) : a \in Users, b \in UpdateTeamBodies }

StillUnder(st, M, u) ==
  \E t \in Teams : <<t, M>> \in st.teamManagers /\ <<t, u>> \in st.teamMembers

\* C15 as stated: a member u of a team T managed by M is in M's resolved
\* scope and passes the team check of bulkAssign; once an operation has
\* removed the membership row and u is in no other team M manages, the next
\* resolution excludes u and M's next bulkAssign to u is answered Forbidden.
C15_RemovedUserExcluded ==
  \A M \in Users, T \in Teams, u \in Users :
    (<<T, M>> \in teamManagers /\ <<T, u>> \in teamMembers) =>
      /\ u \in resolveManagerAssignees(Store, M)
      /\ isRepUnderManager(Store, M, u)
      /\ \A res \in Removals(M, T, u) :
           (/\ res.status = 200
            /\ <<T, u>> \notin res.store.teamMembers
            /\ ~StillUnder(res.store, M, u)) =>
             /\ u \notin resolveManagerAssignees(res.store, M)
             /\ \A ids \in IdLists, o \in BOOLEAN :
                  bulkAssign(res.store, M, ids, u, o).status = 403

\* C15, amended: the same for every member other than M; M, as a member of
\* an own team, stays in the own scope after the row is removed, and
\* bulkAssign by M to M is Forbidden before and after.  While u is a
\* sales_rep member and M a manager, bulkAssign by M to u is accepted.
C15_RemovedMemberExcluded ==
  \A M \in Users, T \in Teams, u \in Users :
    (<<T, M>> \in teamManagers /\ <<T, u>> \in teamMembers) =>
      /\ u \in resolveManagerAssignees(Store, M)
      /\ isRepUnderManager(Store, M, u)
      /\ (RoleOf[M] = "manager" /\ RoleOf[u] = "sales_rep") =>
            \A ids \in IdLists, o \in BOOLEAN :
              bulkAssign(Store, M, ids, u, o).status = 200
      /\ \A res \in Removals(M, T, u) :
           (/\ res.status = 200
            /\ <<T, u>> \notin res.store.teamMembers
            /\ ~StillUnder(res.store, M, u)) =>
             /\ u \in resolveManagerAssignees(res.store, M) <=> u = M
             /\ ~isRepUnderManager(res.store, M, u)
             /\ \A ids \in IdLists, o \in BOOLEAN :
                  bulkAssign(res.store, M, ids, u, o).status = 403

\* a manager M whose team member u is also in a team M does not manage, and
\* whose removeMemberFromMyTeam call takes u out of M's scope
C15_MemberOfTwoTeams ==
  \E M \in Managers, T \in Teams, u \in SalesReps :
    /\ <<T, M>> \in teamManagers /\ <<T, u>> \in teamMembers
    /\ \E t \in Teams : <<t, u>> \in teamMembers /\ <<t, M>> \notin teamManagers
    /\ LET res == removeMemberFromMyTeam(Store, M, u)
       IN /\ res.status = 200
          /\ u \notin resolveManagerAssignees(res.store, M)

Admins == { u \in Users : RoleOf[u] = "admin" }

\* the status (source) breakdown a summary carries, under either field name;
\* empty when the summary carries none
StatusBreakdown(data) ==
  IF "leadsByStatus" \in DOMAIN data THEN data.leadsByStatus
  ELSE IF "byStatus" \in DOMAIN data THEN data.byStatus ELSE <<>>

SourceBreakdown(data) ==
  IF "leadsBySource" \in DOMAIN data THEN data.leadsBySource
  ELSE IF "bySource" \in DOMAIN data THEN data.bySource ELSE <<>>

\* exactly one entry per reference row, counting the leads of ids in it
StatusZeroFilled(b, ids) ==
  /\ Len(b) = Cardinality(leadStatuses)
  /\ \A s \in leadStatuses :
       \E i \in DOMAIN b :
         /\ b[i].status_id = s
         /\ b[i].count = Cardinality({ l \in leads : l.id \in ids /\ l.status_id = s })

SourceZeroFilled(b, ids) ==
  /\ Len(b) = Cardinality(leadSources)
  /\ \A s \in leadSources :
       \E i \in DOMAIN b :
         /\ b[i].source_id = s
         /\ b[i].count = Cardinality({ l \in leads : l.id \in ids /\ l.source_id = s })

AllLeadIds == { l.id : l \in leads }

\* C16 as stated: in the admin, the manager and the sales-rep summary the
\* status (source) breakdown has exactly one entry for every row of the
\* LeadStatus (LeadSource) table, with count 0 for a category no in-scope
\* lead falls into.
C16_AllSummariesZeroFilled ==
  /\ \A a \in Admins :
       /\ StatusZeroFilled(StatusBreakdown(getAdminSummary(Store, a).data), AllLeadIds)
       /\ SourceZeroFilled(SourceBreakdown(getAdminSummary(Store, a).data), AllLeadIds)
  /\ \A u \in SalesReps :
       /\ StatusZeroFilled(StatusBreakdown(getSalesRepSummary(Store, u).data),
                           latestAssignedTo(Store, {u}))
       /\ SourceZeroFilled(SourceBreakdown(getSalesRepSummary(Store, u).data),
                           latestAssignedTo(Store, {u}))
  /\ \A m \in Managers :
       /\ StatusZeroFilled(StatusBreakdown(getManagerSummary(Store, m).data),
                           latestAssignedTo(Store, resolveManagerAssignees(Store, m)))
       /\ SourceZeroFilled(SourceBreakdown(getManagerSummary(Store, m).data),
                           latestAssignedTo(Store, resolveManagerAssignees(Store, m)))

\* C16, amended: the admin and the sales-rep summary are zero-filled that
\* way; the manager summary carries no status or source breakdown, its
\* breakdown is by member: exactly one entry for every user of the manager's
\* resolved scope, counting the leads whose latest row names that user, 0
\* included.
C16_BreakdownsZeroFilled ==
  /\ \A a \in Admins :
       /\ StatusZeroFilled(getAdminSummary(Store, a).data.leadsByStatus, AllLeadIds)
       /\ SourceZeroFilled(getAdminSummary(Store, a).data.leadsBySource, AllLeadIds)
  /\ \A u \in SalesReps :
       /\ StatusZeroFilled(getSalesRepSummary(Store, u).data.byStatus,
                           latestAssignedTo(Store, {u}))
       /\ SourceZeroFilled(getSalesRepSummary(Store, u).data.bySource,
                           latestAssignedTo(Store, {u}))
  /\ \A m \in Managers :
       LET data == getManagerSummary(Store, m).data
       IN /\ StatusBreakdown(data) = <<>> /\ SourceBreakdown(data) = <<>>
          /\ Len(data.leads_by_member) = Cardinality(resolveManagerAssignees(Store, m))
          /\ \A u \in resolveManagerAssignees(Store, m) :
               \E i \in DOMAIN data.leads_by_member :
                 /\ data.leads_by_member[i].assignee_id = u
                 /\ data.leads_by_member[i].count =
                      Cardinality(latestAssignedTo(Store, {u}))

\* a sales_rep with a lead in one status and none in the other, next to a
\* lead of somebody else, and a manager whose team member has no lead
C16_EmptyCategory ==
  /\ Cardinality(leads) = 2
  /\ \E u \in SalesReps :
       LET b == getSalesRepSummary(Store, u).data.byStatus
       IN \E i, j \in DOMAIN b : b[i].count = 0 /\ b[j].count = 1
  /\ \E m \in Managers :
       LET b == getManagerSummary(Store, m).data.leads_by_member
       IN Len(b) = 2 /\ \E i \in DOMAIN b : b[i].count = 0

\* C17: for every actor and every scope filter, the total of getLeads'
\* pagination and every total of the dashboard summaries (the admin's
\* totalLeads and unassignedLeads, every breakdown count, the manager's
\* self_leads, team_leads and per-member counts, the sales_rep's assigned and
\* inboxNew) is at most the number of distinct leads in the leads table,
\* however many ledger rows a lead has.
C17_DistinctCount ==
  LET n == Cardinality(leads)
  IN /\ \A a \in Users, q \in Queries : getLeads(Store, a, q).total <= n
     /\ \A a \in Admins :
          LET data == getAdminSummary(Store, a).data
          IN /\ data.totalLeads = n
             /\ data.unassignedLeads <= n
             /\ \A i \in DOMAIN data.leadsByStatus : data.leadsByStatus[i].count <= n
             /\ \A i \in DOMAIN data.leadsBySource : data.leadsBySource[i].count <= n
     /\ \A m \in Managers :
          LET data == getManagerSummary(Store, m).data
          IN /\ data.self_leads <= data.team_leads
             /\ data.team_leads <= n
             /\ \A i \in DOMAIN data.leads_by_member :
                  data.leads_by_member[i].count <= data.team_leads
     /\ \A u \in SalesReps :
          LET data == getSalesRepSummary(Store, u).data
          IN /\ data.assigned <= n
             /\ data.inboxNew <= data.assigned
             /\ \A i \in DOMAIN data.byStatus : data.byStatus[i].count <= data.assigned
             /\ \A i \in DOMAIN data.bySource : data.bySource[i].count <= data.assigned

\* one lead that has accumulated three ledger rows, two of them naming the
\* admin, and is counted once
C17_ManyRowsOneLead ==
  /\ Cardinality(leads) = 1
  /\ \E l \in leads :
       /\ Cardinality(RowsOf(Store, l.id)) = MaxAssignments
       /\ \E a \in Admins :
            /\ Cardinality({ r \in RowsOf(Store, l.id) : r.assignee_id = a }) >= 2
            /\ getAdminSummary(Store, a).data.unassignedLeads = 1
            /\ getLeads(Store, a, NoQuery).total = 1

\* the answers of the two DELETE endpoints of a lookup row, under every
\* ON DELETE rule of the store
StatusDeletes(a, id) ==
  { sourceStatus_deleteLeadStatus(Store, a, id) }
    \cup { leadStatus_deleteLeadStatus(Store, a, id, r) : r \in StatusDeleteRules }

SourceDeletes(a, id) ==
  { sourceStatus_deleteLeadSource(Store, a, id) }
    \cup { leadSource_deleteLeadSource(Store, a, id, r) : r \in SourceDeleteRules }

\* C18: deleting a LeadStatus or LeadSource that at least one lead
\* references is answered with a conflict carrying in_use_count >= 1 and
\* leaves the row and the leads as they are; deleting an unreferenced one
\* succeeds and removes the row; no lead references a status or source whose
\* row is gone.
C18_DeleteBlockedWhileInUse ==
  /\ \A l \in leads :
       /\ l.status_id \in leadStatuses
       /\ l.source_id = Null \/ l.source_id \in leadSources
  /\ \A a \in Admins, id \in leadStatuses : \A res \in StatusDeletes(a, id) :
       IF InUseStatus(Store, id) > 0
       THEN res.status = 409 /\ res.in_use_count >= 1 /\ res.store = Store
       ELSE res.status = 200 /\ res.store = [Store EXCEPT !.leadStatuses = @ \ {id}]
  /\ \A a \in Admins, id \in leadSources : \A res \in SourceDeletes(a, id) :
       IF InUseSource(Store, id) > 0
       THEN res.status = 409 /\ res.in_use_count >= 1 /\ res.store = Store
       ELSE res.status = 200 /\ res.store = [Store EXCEPT !.leadSources = @ \ {id}]

\* the store after a step
StoreNext == [Store EXCEPT !.leads = leads', !.ledger = ledger']

\* the ledger is keyed by id, and the current assignee of a lead with rows
\* is the assignee of its row with the largest id
LatestIsLargestId ==
  /\ \A r, p \in ledger : r.id = p.id => r = p
  /\ \A l \in leads :
       RowsOf(Store, l.id) # {} =>
         LatestAssigneeOf(Store, l.id) = MaxRow(Store, l.id).assignee_id

\* the insert of an assignLead request on a lead that exists keeps every
\* row and adds one row for the request, under an id above all others
InsertCommits ==
  \A q \in assigning :
    (q.pc = "create" /\ q \notin assigning' /\ LeadExists(Store, q.lead)) =>
      /\ ledger \subseteq ledger'
      /\ \E row \in ledger' \ ledger :
           /\ ledger' = ledger \cup {row}
           /\ row.lead_id = q.lead /\ row.assignee_id = q.assignee
           /\ row.assigned_by = q.actor
           /\ \A r \in ledger : r.id < row.id
      /\ LatestAssigneeOf(StoreNext, q.lead) = q.assignee

\* a row leaves the ledger only together with its lead
NoRowLost ==
  \A r \in ledger : r \in ledger' \/ ~LeadExists(StoreNext, r.lead_id)

\* C19: two assignLead calls on the same lead that run concurrently both
\* commit: under every interleaving of their awaits each insert keeps all
\* rows and adds its own, so both rows are retained, and the current
\* assignee is the assignee of whichever row received the larger id.
C19_ConcurrentAssignsKept ==
  [](LatestIsLargestId) /\ [][InsertCommits /\ NoRowLost]_vars

\* a request about to insert for a lead that another assignLead call has
\* given a row to, with a different assignee, since the request came in
C19_OverlappingAssigns ==
  \E q \in assigning :
    /\ q.pc = "create"
    /\ LeadExists(Store, q.lead)
    /\ \E r \in RowsOf(Store, q.lead) :
         /\ r.id >= q.since
         /\ r.assigned_by \in Managers
         /\ r.assignee_id # q.assignee

\* C20: a manager's assignable targets are the active sales reps in scope:
\* bulkAssign by a manager to a deactivated sales_rep of a managed team is
\* rejected and writes nothing, and every assignee bulkAssign accepts for a
\* manager is among the targets getAssignableTargets returns to that manager.
C20_AcceptedTargetsAssignable ==
  \A M \in Managers, u \in Users, ids \in IdLists, o \in BOOLEAN :
    LET res == bulkAssign(Store, M, ids, u, o)
    IN /\ res.status = 200 => u \in getAssignableTargets(Store, M).targets
       /\ (/\ RoleOf[u] = "sales_rep"
           /\ isRepUnderManager(Store, M, u)
           /\ ~isActive[u]) => (res.status # 200 /\ res.store = Store)

\* ------------------------------------------------------------------ C21
\* the current assignee bulkAssign reads for a found lead
CurrentOf(st, id) ==
  IF id \in DOMAIN getLatestAssignmentsMap(st, {id})
  THEN getLatestAssignmentsMap(st, {id})[id] ELSE Null

\* C21: a bulkAssign request that passes validation and the role matrix is
\* answered 200 whatever ids are missing; the ids with no lead are reported in
\* missing, in request order; with overwrite = false a found lead whose
\* current assignee is the target is skipped with reason
\* already_assigned_to_target, one whose current assignee is someone else
\* with reason already_assigned, and neither gets a row; every other found
\* lead, and with overwrite = true every found lead, gets exactly one new
\* row (lead, assignee_id, assigned_by = actor); no other row is written and
\* none is removed.
C21_BulkAssignPartition ==
  \A a \in Users, ids \in IdLists, u \in Users, o \in BOOLEAN :
    LET res == bulkAssign(Store, a, ids, u, o)
        found == { id \in Range(ids) : LeadExists(Store, id) }
        atTarget == { id \in found : ~o /\ CurrentOf(Store, id) = u }
        atOther  == { id \in found : ~o /\ CurrentOf(Store, id) \notin {Null, u} }
        added == res.store.ledger \ ledger
    IN (roleMiddleware({"admin", "manager"}, a) /\ bulkAssignRoleCheck(Store, a, u) = 200) =>
         /\ res.status = 200
         /\ res.report.missing = SelectSeq(ids, LAMBDA id : id \notin found)
         /\ res.report.skipped =
              { [id |-> id, reason |-> "already_assigned_to_target"] : id \in atTarget }
              \cup { [id |-> id, reason |-> "already_assigned"] : id \in atOther }
         /\ ledger \subseteq res.store.ledger
         /\ \A r \in added : r.lead_id \in found \ (atTarget \cup atOther)
         /\ \A id \in found \ (atTarget \cup atOther) :
              /\ Cardinality({ r \in added : r.lead_id = id }) = 1
              /\ \A r \in added :
                   r.lead_id = id => r = NewRow(r.id, id, u, a, now) /\ r.id >= nextAssignId
         /\ res.report.updated = Cardinality(found \ (atTarget \cup atOther))
         /\ res.store.leads = leads

\* an accepted request naming one lead that has no ledger row yet and one id
\* with no lead: the first gets its row, the second is reported missing
C21_MissingBesideCreated ==
  \E a \in Users, u \in Users, x, y \in LeadIds :
    LET res == bulkAssign(Store, a, <<y, x>>, u, FALSE)
    IN /\ LeadExists(Store, x) /\ RowsOf(Store, x) = {}
       /\ ~LeadExists(Store, y)
       /\ res.status = 200
       /\ res.report.missing = <<y>>
       /\ res.report.updated = 1
       /\ res.store.ledger \ ledger = { NewRow(nextAssignId, x, u, a, now) }

\* ------------------------------------------------------------------ C22
\* C22: the admin summary's unassignedLeads equals the number of leads whose
\* latest assignment's assignee is the requesting admin; a lead the admin
\* once held and that a later row assigns to another user is not counted.
C22_AdminKpiCountsLatest ==
  \A a \in Admins :
    LET res == getAdminSummary(Store, a)
    IN /\ res.status = 200
       /\ res.data.unassignedLeads = Cardinality(latestAssignedTo(Store, {a}))

\* ------------------------------------------------------------------ C23
\* C23: leads_by_member of the manager summary has exactly one entry for
\* every user in the manager's resolved scope, members without a currently
\* assigned lead included with count 0; each count is the number of leads
\* whose latest assignment is that member; the entries are ordered by
\* descending count and, on equal counts, by name.
C23_EveryMemberListed ==
  \A M \in Managers :
    LET res == getManagerSummary(Store, M)
        lbm == res.data.leads_by_member
        scope == resolveManagerAssignees(Store, M)
    IN /\ res.status = 200
       /\ Len(lbm) = Cardinality(scope)
       /\ { lbm[i].assignee_id : i \in DOMAIN lbm } = scope
       /\ \A i \in DOMAIN lbm :
            lbm[i].count = Cardinality(latestAssignedTo(Store, {lbm[i].assignee_id}))
       /\ \A i, j \in DOMAIN lbm :
            i < j =>
              \/ lbm[i].count > lbm[j].count
              \/ /\ lbm[i].count = lbm[j].count
                 /\ localeCompare(FullName[lbm[i].assignee_id],
                                  FullName[lbm[j].assignee_id]) <= 0

\* a manager whose scope holds a member with leads, listed first, and two
\* users without any, listed after it in name order
C23_ZeroCountMembers ==
  \E M \in Managers :
    LET lbm == getManagerSummary(Store, M).data.leads_by_member
    IN /\ Len(lbm) = 3
       /\ lbm[1].count > 0
       /\ lbm[2].count = 0 /\ lbm[3].count = 0
       /\ lbm[2].assignee_id > lbm[3].assignee_id

\* ------------------------------------------------------------------ C24
\* the leads whose row with the largest id names one of the users
HeldBy(st, users) ==
  { l.id : l \in { m \in st.leads :
      RowsOf(st, m.id) # {} /\ MaxRow(st, m.id).assignee_id \in users } }

\* C24: in the manager summary team_leads counts, and recent_team_leads
\* lists, only leads whose latest assignment is within the manager's
\* resolved scope, and self_leads counts only leads whose latest assignment
\* is the manager; in the sales-rep summary assigned counts, and
\* recentAssigned and recentUpdates list, only leads whose latest assignment
\* is that sales rep; after an assignLead that hands a lead to a user outside
\* the scope, the next summary no longer counts or lists that lead.
C24_SummariesInScope ==
  /\ \A M \in Managers :
       LET d == getManagerSummary(Store, M).data
           scope == resolveManagerAssignees(Store, M)
       IN /\ d.team_leads = Cardinality(HeldBy(Store, scope))
          /\ d.recent_team_leads \subseteq HeldBy(Store, scope)
          /\ d.self_leads = Cardinality(HeldBy(Store, {M}))
  /\ \A s \in SalesReps :
       LET d == getSalesRepSummary(Store, s).data
       IN /\ d.assigned = Cardinality(HeldBy(Store, {s}))
          /\ d.recentAssigned \subseteq HeldBy(Store, {s})
          /\ d.recentUpdates \subseteq HeldBy(Store, {s})
  /\ \A a \in Users, id \in LeadIds, u \in Users :
       LET res == assignLead(Store, a, id, u)
       IN res.status = 201 =>
            /\ \A M \in Managers :
                 LET d == getManagerSummary(res.store, M).data
                     scope == resolveManagerAssignees(Store, M)
                 IN /\ u \notin scope =>
                         /\ d.team_leads = Cardinality(HeldBy(Store, scope) \ {id})
                         /\ id \notin d.recent_team_leads
                    /\ u # M => d.self_leads = Cardinality(HeldBy(Store, {M}) \ {id})
            /\ \A s \in SalesReps \ {u} :
                 LET d == getSalesRepSummary(res.store, s).data
                 IN /\ d.assigned = Cardinality(HeldBy(Store, {s}) \ {id})
                    /\ id \notin d.recentAssigned
                    /\ id \notin d.recentUpdates

\* a lead that a sales rep in a manager's scope held and that a later row
\* hands to a user outside that scope, beside a lead the sales rep still holds
C24_ReassignedOutOfScope ==
  \E M \in Managers, s \in SalesReps, x, y \in LeadIds :
    /\ s \in resolveManagerAssignees(Store, M)
    /\ \E r \in RowsOf(Store, x) : r.assignee_id = s
    /\ x \notin HeldBy(Store, resolveManagerAssignees(Store, M))
    /\ y \in HeldBy(Store, {s})
    /\ getSalesRepSummary(Store, s).data.assigned = 1
    /\ getManagerSummary(Store, M).data.team_leads = 1

\* ------------------------------------------------------------------ C25
\* C25: getLeadAssignments returns every ledger row of the lead, once, in
\* descending order of assigned_at, and the first element of the list is the
\* lead's current assignment, the row with the largest id, also when several
\* rows of the lead carry the same assigned_at.
C25_HistoryNewestFirst ==
  \A a \in Users, id \in LeadIds :
    \A answer \in findAllByAssignedAtDesc(Store, id) :
      LET res == getLeadAssignments(Store, a, id, answer)
          list == res.assignments
      IN (res.status = 200 /\ RowsOf(Store, id) # {}) =>
           /\ Range(list) = RowsOf(Store, id)
           /\ Len(list) = Cardinality(RowsOf(Store, id))
           /\ \A i, j \in DOMAIN list : i < j => list[i].assigned_at >= list[j].assigned_at
           /\ list[1] = MaxRow(Store, id)

\* ------------------------------------------------------------------ C26
\* C26: no call by a user M to removeMemberFromMyTeam or removeMemberFromTeam
\* deletes the team_members row of M in a team that M manages: such a call
\* is rejected and team membership is unchanged.
C26_ManagerNotRemovedFromOwnTeam ==
  \A M \in Users, t \in Teams :
    (<<t, M>> \in teamManagers /\ <<t, M>> \in teamMembers) =>
      LET byId == removeMemberFromTeam(Store, M, t, M)
          mine == removeMemberFromMyTeam(Store, M, M)
      IN /\ byId.status # 200
         /\ byId.store.teamMembers = teamMembers
         /\ mine.status # 200
         /\ mine.store.teamMembers = teamMembers

\* ------------------------------------------------------------------ C27
\* C27: the bulk reports account for every requested id: for bulkAssign
\* total_requested = updated + |skipped| + |missing| and for bulkDeleteLeads
\* requested = deleted + |missing|, for every lead_ids list, lists that
\* repeat an id included.
C27_ReportsAddUp ==
  \A a \in Users, ids \in IdLists :
    /\ \A u \in Users, o \in BOOLEAN :
         LET res == bulkAssign(Store, a, ids, u, o)
         IN res.status = 200 =>
              res.report.requested =
                res.report.updated + Cardinality(res.report.skipped) + Len(res.report.missing)
    /\ LET res == bulkDeleteLeads(Store, a, ids)
       IN res.status = 200 =>
            res.report.requested = res.report.deleted + Len(res.report.missing)

\* ------------------------------------------------------------------ C29
\* C29: two bulkAssign calls with the same lead_ids, the same assignee and
\* overwrite = false that run concurrently append between them at most one
\* ledger row per lead: once both have written their rows, no requested
\* lead has two rows since the calls came in that give it to the assignee.
C29_OneRowPerLeadUnderRace ==
  \A q, o \in bulkAssigning :
    ( /\ q.req # o.req
      /\ q.pc = "respond" /\ o.pc = "respond"
      /\ q.lead_ids = o.lead_ids /\ q.assignee = o.assignee
      /\ ~q.overwrite /\ ~o.overwrite ) =>
      \A id \in Range(q.lead_ids) :
        Cardinality({ r \in ledger :
                        /\ r.lead_id = id
                        /\ r.assignee_id = q.assignee
                        /\ r.id >= q.since /\ r.id >= o.since }) <= 1

\* ------------------------------------------------------------------ C30
RECURSIVE SumOfCounts(_)
\* the sum of the count fields of a list of entries
SumOfCounts(list) ==
  IF list = <<>> THEN 0 ELSE Head(list).count + SumOfCounts(Tail(list))

====
